---- MODULE Spec2Model ----
(***************************************************************************)
(* Model of src/src/components/GuitarTuner.tsx: the per-frame analysis     *)
(* loop (analyzeAudio), its helpers and the session start/stop handlers.   *)
(*                                                                         *)
(* Units.  Time is in milliseconds, as Date.now() is; the clock starts at  *)
(* ClockStart instead of the Unix epoch.  Frequencies are in centi-hertz   *)
(* (82.41 Hz = 8241), loudness in whole decibels, NegInfinity stands for   *)
(* the float -Infinity.  Floating point results are rounded to the nearest *)
(* centi-hertz; cents are computed in milli-cents before Math.round.       *)
(* One frame reads one clock value (the Date.now() calls of a frame are    *)
(* taken to return the same millisecond).                                  *)
(***************************************************************************)
EXTENDS Integers, Sequences, FiniteSets, TLC

\* ------------------------------------------------------------------------
\* Program constants (GuitarTuner.tsx lines 10-63)
\* ------------------------------------------------------------------------
GUITAR_STRINGS ==
  [E2 |-> 8241, A2 |-> 11000, D3 |-> 14683, G3 |-> 19600, B3 |-> 24694, E4 |-> 32963]

\* Object.entries(GUITAR_STRINGS) enumerates in insertion order
StringOrder == <<"E2", "A2", "D3", "G3", "B3", "E4">>

CENTS_PRECISION == 3
ALMOST_TUNED_THRESHOLD == 8
VOLUME_THRESHOLD == -52
STABILITY_THRESHOLD == 5
MOVING_AVERAGE_WINDOW == 500
MOVING_AVERAGE_MAX_READINGS == 10
ATTACK_IGNORE_TIME == 120
ATTACK_VOLUME_THRESHOLD == -35
\* YIN: threshold in thousandths (0.10), detection range in Hz
YIN_THRESHOLD == 100
MIN_DETECT_FREQ == 70
MAX_DETECT_FREQ == 350
\* the literals of detectAttack (line 314-315)
ATTACK_JUMP_DB == 8
ATTACK_DEBOUNCE == 300
\* -Infinity (initial value of lastVolumeRef and of the volume state)
NegInfinity == -9999

NoNote == "null"

StatusValues ==
  {"waiting", "flat", "sharp", "tuned", "very-flat", "very-sharp", "almost-tuned"}

\* ------------------------------------------------------------------------
\* Bounds of the model
\* ------------------------------------------------------------------------
\* frequencies the pure functions are called with (centi-Hz): non-positive
\* values, a grid from ProbeLow up in steps of ProbeStep, the reference
\* pitches, and the frequencies on either side of a 100 cent distance
ProbeLow == 6000
ProbeStep == 500
ProbeCount == 68

\* findFundamentalFrequency is called with buffers of BufferLen samples that
\* repeat a wave of at most MaxWaveLen samples
BufferLen == 24
MaxWaveLen == 5
\* ... and, for the waves of two samples, with buffers of LongBufferLen
\* samples, on which the window weighs less
LongBufferLen == 48
\* sample values, and sample rates (Hz)
Samples == {-1, 0, 1}
SampleRates == {350, 700, 1000}

\* number of clicks on the string tiles and the stop button
MaxClicks == 4

\* number of initAudio calls (clicks on the start button) in the model of the
\* awaits of initAudio, and the time its animation frames cover
MaxCalls == 2
MaxLoopTime == 60

\* first clock value read (stands for a Date.now() far from 0)
ClockStart == 1000
\* the clock never passes ClockStart + MaxTime
MaxTime == 320
\* per session, number of frames whose input differs from the frame before
MaxChanges == 1

\* time between two frames; the smallest is the regular frame period
FrameGaps == {20, 310}
\* loudness readings of the meter (dB)
Volumes == {NegInfinity, -60, -50, -30, -20}
\* results of findFundamentalFrequency (centi-Hz); 0 is "no pitch"
Pitches == {0, 11000, 11350, 13500, 19500}

\* ------------------------------------------------------------------------
\* Arithmetic helpers
\* ------------------------------------------------------------------------
Abs(x) == IF x < 0 THEN -x ELSE x

Max(a, b) == IF a >= b THEN a ELSE b

Min(a, b) == IF a <= b THEN a ELSE b

SetMin(S) == CHOOSE x \in S : \A y \in S : x <= y

\* Math.round(a / b) for b > 0: floor(a/b + 1/2)
RoundDiv(a, b) == (2 * a + b) \div (2 * b)

isFinite(v) == v # NegInfinity

\* 1200 * Math.log2(f / t) in milli-cents, for f, t > 0.
\* Ratios beyond a minor third are reduced by 300 cents (2^(1/4) = 1.189207)
\* first; then log2(x) = (2/ln 2) * atanh((x-1)/(x+1)) with the series
\* z + z^3/3, z scaled by 200000 and 2400000/ln 2 = 3462468 / 200000 = 17.312.
RECURSIVE Log2MilliCents(_, _)
Log2MilliCents(f, t) ==
  IF 5 * f > 6 * t THEN 300000 + Log2MilliCents(RoundDiv(f * 10000, 11892), t)
  ELSE IF 5 * t > 6 * f THEN Log2MilliCents(f, RoundDiv(t * 10000, 11892)) - 300000
  ELSE LET d == Abs(f - t)
           z == (d * 200000) \div (f + t)
           z3 == (((z * z) \div 200000) * z) \div 600000
           m == RoundDiv((z + z3) * 17312, 1000)
       IN IF f >= t THEN m ELSE -m

\* ------------------------------------------------------------------------
\* freqToCents (lines 72-75)
\* ------------------------------------------------------------------------
freqToCents(freq, targetFreq) ==
  IF freq <= 0 \/ targetFreq <= 0 THEN 0
  ELSE (Log2MilliCents(freq, targetFreq) + 500) \div 1000

\* ------------------------------------------------------------------------
\* findClosestString (lines 78-100); the result is a string name or NoNote
\* ------------------------------------------------------------------------
\* the forEach of lines 84-92 over the first n entries: [name, minDifference]
RECURSIVE closestScan(_, _)
closestScan(freq, n) ==
  IF n = 0 THEN [name |-> NoNote, minDifference |-> -1]
  ELSE LET prev == closestScan(freq, n - 1)
           stringName == StringOrder[n]
           centsDifference == Abs(Log2MilliCents(freq, GUITAR_STRINGS[stringName]))
       IN IF prev.minDifference < 0 \/ centsDifference < prev.minDifference
          THEN [name |-> stringName, minDifference |-> centsDifference]
          ELSE prev

\* findClosestString whose scan stops one entry short
findClosestString_SkipsLast(freq) ==
  IF freq <= 0 THEN NoNote
  ELSE LET r == closestScan(freq, Len(StringOrder) - 1)
       IN IF r.name # NoNote /\ r.minDifference < 100 * 1000 THEN r.name ELSE NoNote

\* findClosestString that compares the rounded distance with the limit
findClosestString_RoundedLimit(freq) ==
  IF freq <= 0 THEN NoNote
  ELSE LET r == closestScan(freq, Len(StringOrder))
       IN IF r.name # NoNote /\ (r.minDifference + 500) \div 1000 <= 100
          THEN r.name ELSE NoNote

findClosestString(freq) ==
  IF freq <= 0 THEN NoNote
  ELSE LET r == closestScan(freq, Len(StringOrder))
       IN IF r.name # NoNote /\ r.minDifference < 100 * 1000 THEN r.name ELSE NoNote

\* ------------------------------------------------------------------------
\* calculateMovingAverage (lines 260-300)
\* ------------------------------------------------------------------------
\* filterRecent that keeps every reading
filterRecent_KeepAll(readings, now) == readings

\* Array.prototype.filter of lines 270-272
RECURSIVE filterRecent(_, _)
filterRecent(readings, now) ==
  IF readings = <<>> THEN <<>>
  ELSE LET rest == filterRecent(Tail(readings), now)
       IN IF now - Head(readings).timestamp <= MOVING_AVERAGE_WINDOW
          THEN <<Head(readings)>> \o rest
          ELSE rest

\* limitReadings that keeps the first MAX readings instead of the last
limitReadings_KeepOldest(readings) ==
  IF Len(readings) > MOVING_AVERAGE_MAX_READINGS
  THEN SubSeq(readings, 1, MOVING_AVERAGE_MAX_READINGS)
  ELSE readings

\* slice(length - MAX) of lines 275-279
limitReadings(readings) ==
  IF Len(readings) > MOVING_AVERAGE_MAX_READINGS
  THEN SubSeq(readings, Len(readings) - MOVING_AVERAGE_MAX_READINGS + 1, Len(readings))
  ELSE readings

\* 1 - (now - reading.timestamp) / MOVING_AVERAGE_WINDOW, in thousandths
\* (line 289)
timeWeight(readings, i, now) ==
  1000 - ((now - readings[i].timestamp) * 1000) \div MOVING_AVERAGE_WINDOW

\* (index + 1) / length for the (1-based) position i, in thousandths (line 291)
positionWeight(readings, i) == (i * 1000) \div Len(readings)

\* readingWeight that is the recency factor alone
readingWeight_TimeOnly(readings, i, now) == timeWeight(readings, i, now)

\* weight of the reading at (1-based) position i, in thousandths:
\* (timeWeight + positionWeight) / 2  (line 293)
readingWeight(readings, i, now) ==
  (timeWeight(readings, i, now) + positionWeight(readings, i)) \div 2

RECURSIVE weightedSum(_, _, _)
weightedSum(readings, n, now) ==
  IF n = 0 THEN 0
  ELSE weightedSum(readings, n - 1, now) + readings[n].frequency * readingWeight(readings, n, now)

RECURSIVE totalWeight(_, _, _)
totalWeight(readings, n, now) ==
  IF n = 0 THEN 0
  ELSE totalWeight(readings, n - 1, now) + readingWeight(readings, n, now)

\* the frequency history after the push, the age filter and the count limit
pushReading(readings, newFreq, now) ==
  limitReadings(filterRecent(
      Append(readings, [frequency |-> newFreq, timestamp |-> now]), now))

\* the value returned, given the history left by pushReading
movingAverage(readings, newFreq, now) ==
  IF Len(readings) < 2 THEN newFreq
  ELSE LET tw == totalWeight(readings, Len(readings), now)
       IN IF tw > 0 THEN RoundDiv(weightedSum(readings, Len(readings), now), tw)
          ELSE newFreq

\* ------------------------------------------------------------------------
\* detectAttack (lines 303-323): the condition of line 314-315
\* ------------------------------------------------------------------------
\* volumeJump > 8, with the float rules for -Infinity (Inf - Inf is NaN)
volumeJumpExceeds(currentVolume, last) ==
  IF ~isFinite(currentVolume) THEN FALSE
  ELSE IF ~isFinite(last) THEN TRUE
  ELSE currentVolume - last > ATTACK_JUMP_DB

\* detectAttack without the debounce clause
detectAttack_NoDebounce(currentVolume, last, lastAttack, now) ==
  /\ volumeJumpExceeds(currentVolume, last)
  /\ currentVolume > ATTACK_VOLUME_THRESHOLD

detectAttack(currentVolume, last, lastAttack, now) ==
  /\ volumeJumpExceeds(currentVolume, last)
  /\ currentVolume > ATTACK_VOLUME_THRESHOLD
  /\ now - lastAttack > ATTACK_DEBOUNCE

\* ------------------------------------------------------------------------
\* getAdjustedVolumeThreshold (lines 326-341)
\* ------------------------------------------------------------------------
getAdjustedVolumeThreshold(detectedFrequency) ==
  IF detectedFrequency <= 0 THEN VOLUME_THRESHOLD
  ELSE IF detectedFrequency > 25000 THEN VOLUME_THRESHOLD + 6
  ELSE IF detectedFrequency > 15000 THEN VOLUME_THRESHOLD + 3
  ELSE VOLUME_THRESHOLD

\* ------------------------------------------------------------------------
\* findFundamentalFrequency (lines 106-198).  Samples are integers, window
\* values are in hundredths, yinBuffer values in thousandths, the period in
\* thousandths of a sample; the result is in centi-Hz, 0 is "no pitch".
\* JavaScript indexes from 0: yinBuffer[tau] is yin[tau + 1] here.
\* ------------------------------------------------------------------------
\* 1000 * cos(2 pi num / den) for 0 <= 4 num <= den, by the series
\* 1 - x^2/2 + x^4/24 - x^6/720 with x in thousandths
CosQuarter(num, den) ==
  LET x == (6283 * num) \div den
      x2 == (x * x) \div 1000
      x4 == (x2 * x2) \div 1000
      x6 == (x4 * x2) \div 1000
  IN 1000 - x2 \div 2 + x4 \div 24 - x6 \div 720

\* 1000 * Math.cos(2 * Math.PI * i / n) for 0 <= i < n
CosMilli(i, n) ==
  LET j == IF 2 * i > n THEN n - i ELSE i
  IN IF 4 * j > n THEN -CosQuarter(n - 2 * j, 2 * n) ELSE CosQuarter(j, n)

\* line 122: the Hann window, in hundredths
windowValue(i, bufferSize) == RoundDiv(1000 - CosMilli(i, bufferSize), 20)

\* lines 119-124
windowedBuffer(buffer) ==
  [k \in 1..Len(buffer) |-> buffer[k] * windowValue(k - 1, Len(buffer))]

\* lines 132-136: the sum over the first n values of i
RECURSIVE squaredDifference(_, _, _)
squaredDifference(w, tau, n) ==
  IF n = 0 THEN 0
  ELSE LET delta == w[n] - w[n + tau]
       IN squaredDifference(w, tau, n - 1) + delta * delta

\* line 139: runningSum after the iteration for tau
RECURSIVE runningSum(_, _, _)
runningSum(w, tau, yinBufferSize) ==
  IF tau = 0 THEN 0
  ELSE runningSum(w, tau - 1, yinBufferSize) + squaredDifference(w, tau, yinBufferSize)

\* lines 127-141
yinBufferOf(buffer) ==
  LET yinBufferSize == Len(buffer) \div 2
      w == windowedBuffer(buffer)
  IN [k \in 1..yinBufferSize |->
        IF k = 1 THEN 1000
        ELSE LET rs == runningSum(w, k - 1, yinBufferSize)
                 d == IF rs = 0 THEN 1 ELSE rs
                 n == squaredDifference(w, k - 1, yinBufferSize) * 1000
             \* floor((k - 1) * n / d), in two steps to stay within 32 bits
             IN (k - 1) * (n \div d) + ((k - 1) * (n % d)) \div d]

\* lines 149-165: the loop from tau on; acc is [bestPeriod, minValue,
\* foundThreshold]; a read past the end of yinBuffer is undefined, and a
\* comparison with undefined is false
RECURSIVE periodSearch(_, _, _, _, _)
periodSearch(yin, tau, minPeriod, maxPeriod, acc) ==
  IF tau > maxPeriod THEN acc
  ELSE LET a == IF yin[tau + 1] < acc.minValue
                THEN [acc EXCEPT !.minValue = yin[tau + 1], !.bestPeriod = tau]
                ELSE acc
       IN IF /\ yin[tau + 1] < YIN_THRESHOLD
             /\ tau > minPeriod
             /\ yin[tau + 1] < yin[tau]
             /\ tau + 2 <= Len(yin)
             /\ yin[tau + 1] < yin[tau + 2]
          THEN [a EXCEPT !.foundThreshold = TRUE, !.bestPeriod = tau]
          ELSE periodSearch(yin, tau + 1, minPeriod, maxPeriod, a)

\* a / b rounded to the nearest integer, for any signs (b # 0)
SignedRoundDiv(a, b) ==
  IF (a >= 0) = (b > 0) THEN RoundDiv(Abs(a), Abs(b)) ELSE -RoundDiv(Abs(a), Abs(b))

\* lines 174-187: the period after the parabolic interpolation, in
\* thousandths of a sample
interpolatedPeriod(yin, bestPeriod) ==
  IF bestPeriod > 0 /\ bestPeriod < Len(yin) - 1
  THEN LET y1 == yin[bestPeriod]
           y2 == yin[bestPeriod + 1]
           y3 == yin[bestPeriod + 2]
           denominator == 2 * (2 * y2 - y1 - y3)
       IN IF Abs(denominator) > 0 /\ Abs(y3 - y1) < Abs(denominator)
          THEN bestPeriod * 1000 + SignedRoundDiv((y3 - y1) * 1000, denominator)
          ELSE bestPeriod * 1000
  ELSE bestPeriod * 1000

\* the conversion without the range check of line 193
pitchOfPeriod_NoRangeCheck(period, sampleRate) ==
  IF period > 0 THEN RoundDiv(sampleRate * 1000 * 100, period) ELSE 0

\* lines 190-197: sampleRate / period when it is inside the range
pitchOfPeriod(period, sampleRate) ==
  IF period > 0
     /\ sampleRate * 1000 * 100 >= MIN_DETECT_FREQ * 95 * period
     /\ sampleRate * 1000 * 100 <= MAX_DETECT_FREQ * 105 * period
  THEN RoundDiv(sampleRate * 1000 * 100, period)
  ELSE 0

\* pickedPeriod that keeps the global minimum however poor it is
pickedPeriod_KeepsPoorMinimum(yin, sampleRate) ==
  LET minPeriod == Max(2, sampleRate \div MAX_DETECT_FREQ)
      maxPeriod == Min(Len(yin) - 1, sampleRate \div MIN_DETECT_FREQ)
  IN periodSearch(yin, minPeriod, minPeriod, maxPeriod,
                  [bestPeriod |-> 0, minValue |-> 1000, foundThreshold |-> FALSE])

\* lines 143-171: the period picked, or 0 when no minimum is acceptable
pickedPeriod(yin, sampleRate) ==
  LET minPeriod == Max(2, sampleRate \div MAX_DETECT_FREQ)
      maxPeriod == Min(Len(yin) - 1, sampleRate \div MIN_DETECT_FREQ)
      r == periodSearch(yin, minPeriod, minPeriod, maxPeriod,
                        [bestPeriod |-> 0, minValue |-> 1000, foundThreshold |-> FALSE])
  IN [r EXCEPT !.bestPeriod =
        IF ~r.foundThreshold /\ 10 * r.minValue > YIN_THRESHOLD * 12 THEN 0 ELSE @]

findFundamentalFrequency(buffer, sampleRate) ==
  LET yin == yinBufferOf(buffer)
      r == pickedPeriod(yin, sampleRate)
  IN IF r.bestPeriod = 0 THEN 0
     ELSE pitchOfPeriod(interpolatedPeriod(yin, r.bestPeriod), sampleRate)

\* ------------------------------------------------------------------------
\* State
\* ------------------------------------------------------------------------
VARIABLES
  \* React state (lines 205-213)
  isListening, detectedNote, detectedFreq, tuningStatus, cents, volume,
  isAttack, accuracy,
  \* refs (lines 216-232)
  micState, nodes, animationRef,
  lastStableFreq, stableCounter, attackTime, frequencyReadings, lastVolume,
  lastNoteChangeTime,
  \* the isAttack value captured by the analyzeAudio closure of the running loop
  closureIsAttack,
  \* an initAudio call is suspended at an await
  initPending,
  \* environment: the clock, the input of the previous frame, the number of
  \* input changes so far
  clock, lastInput, changes,
  \* what the last analyzeAudio call did (history variable)
  frame,
  \* reference tone (lines 220, 235): the note marked as playing, the note the
  \* synth is sounding, and the last click (history variable)
  playingNote, synthNote, lastClick,
  \* a call of one of the pure functions: its arguments and its result
  probe,
  \* the initAudio calls (their position, the isAttack their analyzeAudio
  \* captured, whether stopAudio ran since they began), the state of the
  \* UserMedia each of them created, and the one micRef holds (0 is null)
  calls, mics, micRef,
  \* the analysis loops (named after their initAudio call) whose callback is
  \* requested for the next animation frame, those whose callback is due in
  \* the current one, and the loop whose request animationRef holds (0 is null)
  pending, due, owner,
  \* the component has unmounted; the error state (line 214) is set
  unmounted, error,
  \* the last analyzeAudio call that got past its guard (history variable)
  lastWrite

display == <<isListening, detectedNote, detectedFreq, tuningStatus, cents, volume,
             isAttack, accuracy>>

refs == <<micState, nodes, animationRef, lastStableFreq, stableCounter, attackTime,
          frequencyReadings, lastVolume, lastNoteChangeTime, closureIsAttack,
          initPending>>

env == <<clock, lastInput, changes, frame>>

tone == <<playingNote, synthNote, lastClick>>

async == <<calls, mics, micRef, pending, due, owner, unmounted, error, lastWrite>>

vars == <<display, refs, env, tone, probe, async>>

\* the fields analyzeAudio reads and writes, as one record
TuningState ==
  [detectedNote |-> detectedNote, detectedFreq |-> detectedFreq,
   tuningStatus |-> tuningStatus, cents |-> cents, volume |-> volume,
   isAttack |-> isAttack, accuracy |-> accuracy,
   lastStableFreq |-> lastStableFreq, stableCounter |-> stableCounter,
   attackTime |-> attackTime, frequencyReadings |-> frequencyReadings,
   lastVolume |-> lastVolume, lastNoteChangeTime |-> lastNoteChangeTime]

\* History of the last analyzeAudio call of the running session:
\*   index       number of calls since the loop was started
\*   kind        "invalid", "lowVolume", "noPitch" or "pitch": the path taken
\*   pitch       the estimate findFundamentalFrequency returned
\*   newAttack   detectAttack returned true
\*   prevAttack  attackTime as the call found it
\*   smoothed    the smoothed frequency (pitch frames)
\*   branch      "stable", "candidate" or "drift": the hysteresis branch taken
\*   prevStable, prevCounter   lastStableFreq and stableCounter as the
\*               hysteresis found them (after the attack handling)
\*   committed   the display block of lines 573-612 ran
\*   matched     ... and findClosestString found a string
\*   a2run       index, as long as every call so far passed the gate with an
\*               estimate of 110.00 Hz and no attack; 0 afterwards
\*   sinceReset  pitch frames since stableCounter was last reset to 0
\*   lowRun      number of frames in a row, this one included, that failed the
\*               gate; lowStart  stableCounter before the first of them
NoFrame ==
  [index |-> 0, kind |-> "none", now |-> 0, pitch |-> 0, newAttack |-> FALSE,
   prevAttack |-> 0, smoothed |-> 0, branch |-> "none", prevStable |-> 0, prevCounter |-> 0,
   committed |-> FALSE, matched |-> FALSE, a2run |-> 0, sinceReset |-> 0,
   lowRun |-> 0, lowStart |-> 0]

\* History of the last click on a string tile or on the stop button:
\*   kind      "note" or "stop";  note  the tile clicked
\*   before    playingNote when the click was handled
\*   released  the handler called triggerRelease
\*   count     clicks so far
NoClick ==
  [kind |-> "none", note |-> NoNote, before |-> NoNote, released |-> FALSE,
   count |-> 0]

\* History of the last analyzeAudio call that got past the guard of line 495:
\*   call    the initAudio call that created it
\*   stale   stopAudio had run since that initAudio call began, or a later
\*           initAudio call had begun
\*   count   such calls made as callbacks of the current animation frame
NoWrite == [call |-> 0, stale |-> FALSE, count |-> 0]

\* A call of a pure function: call names the function, freq, target, buffer
\* and sampleRate are its arguments, done says that it has returned, note or
\* value is what it returned (the commit block writes its result to the
\* display state instead).  For calculateMovingAverage, readings is
\* frequencyReadingsRef.current when it is called and now what Date.now()
\* returns at line 261; the history it leaves is in frequencyReadings.
NoProbe ==
  [call |-> "none", freq |-> 0, target |-> 0, buffer |-> <<>>, sampleRate |-> 0,
   readings |-> <<>>, now |-> 0, done |-> FALSE, note |-> NoNote, value |-> 0]

\* ------------------------------------------------------------------------
\* analyzeAudio (lines 494-643), stage by stage, on a TuningState record
\* ------------------------------------------------------------------------
\* attackStage that leaves stableCounter and lastStableFreq alone
attackStage_NoReset(st, closure, now, currentVolume) ==
  LET newAttackDetected ==
        detectAttack(currentVolume, st.lastVolume, st.attackTime, now)
      a == [st EXCEPT !.volume = currentVolume, !.lastVolume = currentVolume]
  IN IF newAttackDetected
     THEN [a EXCEPT !.attackTime = now, !.lastNoteChangeTime = now,
                    !.frequencyReadings = <<>>, !.isAttack = TRUE]
     ELSE IF closure /\ now - a.attackTime > ATTACK_IGNORE_TIME
          THEN [a EXCEPT !.isAttack = FALSE]
          ELSE a

\* lines 505-520 with detectAttack's writes (lines 308, 316-318)
attackStage(st, closure, now, currentVolume) ==
  LET newAttackDetected ==
        detectAttack(currentVolume, st.lastVolume, st.attackTime, now)
      a == [st EXCEPT !.volume = currentVolume, !.lastVolume = currentVolume]
  IN IF newAttackDetected
     THEN [a EXCEPT !.attackTime = now, !.lastNoteChangeTime = now,
                    !.frequencyReadings = <<>>, !.isAttack = TRUE,
                    !.stableCounter = 0, !.lastStableFreq = 0]
     ELSE IF closure /\ now - a.attackTime > ATTACK_IGNORE_TIME
          THEN [a EXCEPT !.isAttack = FALSE]
          ELSE a

\* lines 529-537
gateOpen(st, closure, now, currentVolume) ==
  /\ isFinite(currentVolume)
  /\ currentVolume > getAdjustedVolumeThreshold(st.lastStableFreq)
  /\ (~closure \/ now - st.attackTime > ATTACK_IGNORE_TIME)

\* stabilityStage whose drift branch resets the counter
stabilityStage_HardReset(st, smoothedFreq, now) ==
  LET tolerance == Max(50 * 1000, st.lastStableFreq * 15)
      difference == 1000 * Abs(smoothedFreq - st.lastStableFreq)
  IN IF difference < tolerance
     THEN [st EXCEPT !.stableCounter = @ + 1]
     ELSE IF st.lastStableFreq = 0 \/ difference > tolerance * 3
          THEN [st EXCEPT !.lastStableFreq = smoothedFreq, !.stableCounter = 0]
          ELSE [st EXCEPT !.lastStableFreq = RoundDiv(9 * @ + smoothedFreq, 10),
                          !.stableCounter = 0]

\* stabilityStage whose new-candidate branch forgets to reset the counter
stabilityStage_KeepCounter(st, smoothedFreq, now) ==
  LET tolerance == Max(50 * 1000, st.lastStableFreq * 15)
      difference == 1000 * Abs(smoothedFreq - st.lastStableFreq)
  IN IF difference < tolerance
     THEN [st EXCEPT !.stableCounter = @ + 1]
     ELSE IF st.lastStableFreq = 0 \/ difference > tolerance * 3
          THEN [st EXCEPT !.lastStableFreq = smoothedFreq]
          ELSE [st EXCEPT !.lastStableFreq = RoundDiv(9 * @ + smoothedFreq, 10),
                          !.stableCounter = Max(0, @ - 1)]

\* lines 547-569; tolerance and differences are compared times 1000
\* (0.5 Hz = 50 centi-Hz, 0.015 = 15/1000)
stabilityStage(st, smoothedFreq, now) ==
  LET tolerance == Max(50 * 1000, st.lastStableFreq * 15)
      difference == 1000 * Abs(smoothedFreq - st.lastStableFreq)
  IN IF difference < tolerance
     THEN [st EXCEPT !.stableCounter = @ + 1]
     ELSE IF st.lastStableFreq = 0 \/ difference > tolerance * 3
          THEN LET b == [st EXCEPT !.lastStableFreq = smoothedFreq,
                                   !.stableCounter = 0]
               IN IF b.lastStableFreq > 0
                     /\ Abs(Log2MilliCents(smoothedFreq, b.lastStableFreq)) > 50 * 1000
                  THEN [b EXCEPT !.lastNoteChangeTime = now,
                                 !.frequencyReadings = <<>>]
                  ELSE b
          ELSE [st EXCEPT !.lastStableFreq = RoundDiv(9 * @ + smoothedFreq, 10),
                          !.stableCounter = Max(0, @ - 1)]

\* commitCondition without the stability clause
commitCondition_NoStability(counter, now, noteChangeTime) ==
  now - noteChangeTime > ATTACK_IGNORE_TIME

\* commitCondition without the delay after a note change
commitCondition_NoDelay(counter, now, noteChangeTime) ==
  counter >= STABILITY_THRESHOLD

\* commitCondition with a strict comparison of the counter
commitCondition_Strict(counter, now, noteChangeTime) ==
  /\ counter > STABILITY_THRESHOLD
  /\ now - noteChangeTime > ATTACK_IGNORE_TIME

\* lines 573-574
commitCondition(counter, now, noteChangeTime) ==
  /\ counter >= STABILITY_THRESHOLD
  /\ now - noteChangeTime > ATTACK_IGNORE_TIME

\* newAccuracy without the clamp
newAccuracy_NoClamp(centsDiff) == 100 - Abs(centsDiff) * 2

\* lines 590-593
newAccuracy(centsDiff) == Max(0, Min(100, 100 - Abs(centsDiff) * 2))

\* classifyStatus with a strict comparison for "almost-tuned"
classifyStatus_StrictAlmost(centsDiff, old) ==
  IF Abs(centsDiff) <= CENTS_PRECISION THEN "tuned"
  ELSE IF Abs(centsDiff) < ALMOST_TUNED_THRESHOLD THEN "almost-tuned"
  ELSE IF centsDiff < -ALMOST_TUNED_THRESHOLD
       THEN (IF centsDiff < -25 THEN "very-flat" ELSE "flat")
  ELSE IF centsDiff > ALMOST_TUNED_THRESHOLD
       THEN (IF centsDiff > 25 THEN "very-sharp" ELSE "sharp")
  ELSE old

\* lines 596-604; old is the status kept when no branch is taken
classifyStatus(centsDiff, old) ==
  IF Abs(centsDiff) <= CENTS_PRECISION THEN "tuned"
  ELSE IF Abs(centsDiff) <= ALMOST_TUNED_THRESHOLD THEN "almost-tuned"
  ELSE IF centsDiff < -ALMOST_TUNED_THRESHOLD
       THEN (IF centsDiff < -25 THEN "very-flat" ELSE "flat")
  ELSE IF centsDiff > ALMOST_TUNED_THRESHOLD
       THEN (IF centsDiff > 25 THEN "very-sharp" ELSE "sharp")
  ELSE old

\* commitStage that leaves the displayed note alone when a string is found
commitStage_KeepsNote(st, smoothedFreq) ==
  LET closestString == findClosestString(smoothedFreq)
      a == [st EXCEPT !.detectedFreq = smoothedFreq]
  IN IF closestString # NoNote
     THEN LET centsDiff == freqToCents(smoothedFreq, GUITAR_STRINGS[closestString])
          IN [a EXCEPT !.cents = centsDiff,
                       !.accuracy = newAccuracy(centsDiff),
                       !.tuningStatus = classifyStatus(centsDiff, @)]
     ELSE [a EXCEPT !.detectedNote = NoNote, !.tuningStatus = "waiting",
                    !.cents = 0, !.accuracy = 0]

\* lines 576-611
commitStage(st, smoothedFreq) ==
  LET closestString == findClosestString(smoothedFreq)
      a == [st EXCEPT !.detectedFreq = smoothedFreq]
  IN IF closestString # NoNote
     THEN LET centsDiff == freqToCents(smoothedFreq, GUITAR_STRINGS[closestString])
          IN [a EXCEPT !.detectedNote = closestString, !.cents = centsDiff,
                       !.accuracy = newAccuracy(centsDiff),
                       !.tuningStatus = classifyStatus(centsDiff, @)]
     ELSE [a EXCEPT !.detectedNote = NoNote, !.tuningStatus = "waiting",
                    !.cents = 0, !.accuracy = 0]

\* noPitchStage that resets the counter instead of lowering it
noPitchStage_ResetCounter(st) ==
  LET a == IF st.stableCounter < STABILITY_THRESHOLD
           THEN [st EXCEPT !.tuningStatus = "waiting", !.cents = 0, !.accuracy = 0]
           ELSE st
  IN [a EXCEPT !.stableCounter = 0]

\* noPitchStage that clears the result whatever the counter is
noPitchStage_AlwaysWaiting(st) ==
  [st EXCEPT !.tuningStatus = "waiting", !.cents = 0, !.accuracy = 0,
             !.stableCounter = Max(0, @ - 1)]

\* lines 614-620
noPitchStage(st) ==
  LET a == IF st.stableCounter < STABILITY_THRESHOLD
           THEN [st EXCEPT !.tuningStatus = "waiting", !.cents = 0, !.accuracy = 0]
           ELSE st
  IN [a EXCEPT !.stableCounter = Max(0, @ - 1)]

\* lowVolumeStage that leaves the counter alone
lowVolumeStage_KeepsCounter(st) ==
  IF st.stableCounter < STABILITY_THRESHOLD
  THEN [st EXCEPT !.tuningStatus = "waiting", !.cents = 0, !.accuracy = 0]
  ELSE st

\* lowVolumeStage that lowers the counter without the floor at 0
lowVolumeStage_NoFloor(st) ==
  LET a == IF st.stableCounter < STABILITY_THRESHOLD
           THEN [st EXCEPT !.tuningStatus = "waiting", !.cents = 0, !.accuracy = 0]
           ELSE st
  IN [a EXCEPT !.stableCounter = @ - 1]

\* lowVolumeStage that clears the result whatever the counter is
lowVolumeStage_AlwaysWaiting(st) ==
  [st EXCEPT !.tuningStatus = "waiting", !.cents = 0, !.accuracy = 0,
             !.stableCounter = Max(0, @ - 1)]

\* lines 623-631
lowVolumeStage(st) ==
  LET a == IF st.stableCounter < STABILITY_THRESHOLD
           THEN [st EXCEPT !.tuningStatus = "waiting", !.cents = 0, !.accuracy = 0]
           ELSE st
  IN [a EXCEPT !.stableCounter = Max(0, @ - 1)]

\* the hysteresis branch stabilityStage takes (lines 549, 554-555, 564)
stabilityBranch(st, smoothedFreq) ==
  LET tolerance == Max(50 * 1000, st.lastStableFreq * 15)
      difference == 1000 * Abs(smoothedFreq - st.lastStableFreq)
  IN IF difference < tolerance THEN "stable"
     ELSE IF st.lastStableFreq = 0 \/ difference > tolerance * 3 THEN "candidate"
     ELSE "drift"

\* lines 540-612: the frame has passed the gate and has a pitch.  The result
\* is the state after the branch (st) with what the branch did: the smoothed
\* frequency, the hysteresis branch, whether the commit block ran and whether
\* it found a string.
pitchStage(st, now, fundamentalFreq) ==
  LET readings == pushReading(st.frequencyReadings, fundamentalFreq, now)
      smoothedFreq == movingAverage(readings, fundamentalFreq, now)
      b == stabilityStage([st EXCEPT !.frequencyReadings = readings], smoothedFreq, now)
      committed == commitCondition(b.stableCounter, now, b.lastNoteChangeTime)
      c == IF committed THEN commitStage(b, smoothedFreq) ELSE b
  IN [st |-> c, smoothed |-> smoothedFreq,
      branch |-> stabilityBranch(st, smoothedFreq), committed |-> committed,
      matched |-> committed /\ c.detectedNote # NoNote]

\* The try block, lines 502-632.  The result is the state after the call (st)
\* and the history record of the call (info), from the record of the call
\* before (prev).
analyzeAudio(prev, st, closure, now, currentVolume, fundamentalFreq, valid) ==
  LET newAttack == detectAttack(currentVolume, st.lastVolume, st.attackTime, now)
      a == attackStage(st, closure, now, currentVolume)
      base == [NoFrame EXCEPT !.index = prev.index + 1, !.now = now,
                              !.pitch = fundamentalFreq, !.newAttack = newAttack,
                              !.prevAttack = st.attackTime,
                              !.sinceReset = IF newAttack THEN 0 ELSE prev.sinceReset]
  IN IF ~valid THEN [st |-> a, info |-> [base EXCEPT !.kind = "invalid"]]
     ELSE IF ~gateOpen(a, closure, now, currentVolume)
          THEN [st |-> lowVolumeStage(a),
                info |-> [base EXCEPT
                   !.kind = "lowVolume", !.lowRun = prev.lowRun + 1,
                   !.lowStart = IF prev.lowRun = 0 THEN st.stableCounter
                                ELSE prev.lowStart]]
     ELSE IF fundamentalFreq <= 0
          THEN [st |-> noPitchStage(a), info |-> [base EXCEPT !.kind = "noPitch"]]
     ELSE LET r == pitchStage(a, now, fundamentalFreq)
          IN [st |-> r.st,
              info |-> [base EXCEPT
                 !.kind = "pitch", !.smoothed = r.smoothed, !.branch = r.branch,
                 !.prevStable = a.lastStableFreq, !.prevCounter = a.stableCounter,
                 !.committed = r.committed, !.matched = r.matched,
                 !.a2run = IF fundamentalFreq = GUITAR_STRINGS.A2 /\ ~newAttack
                              /\ prev.a2run = prev.index
                           THEN prev.a2run + 1 ELSE 0,
                 !.sinceReset = IF r.branch = "candidate" THEN 0
                                ELSE base.sinceReset + 1]]

\* assign a TuningState record to the variables
Store(st) ==
  /\ detectedNote' = st.detectedNote
  /\ detectedFreq' = st.detectedFreq
  /\ tuningStatus' = st.tuningStatus
  /\ cents' = st.cents
  /\ volume' = st.volume
  /\ isAttack' = st.isAttack
  /\ accuracy' = st.accuracy
  /\ lastStableFreq' = st.lastStableFreq
  /\ stableCounter' = st.stableCounter
  /\ attackTime' = st.attackTime
  /\ frequencyReadings' = st.frequencyReadings
  /\ lastVolume' = st.lastVolume
  /\ lastNoteChangeTime' = st.lastNoteChangeTime

\* ------------------------------------------------------------------------
\* Initial state: the component has mounted (lines 205-235)
\* ------------------------------------------------------------------------
InitComponent ==
  /\ isListening = FALSE
  /\ detectedNote = NoNote
  /\ detectedFreq = 0
  /\ tuningStatus = "waiting"
  /\ cents = 0
  /\ volume = NegInfinity
  /\ isAttack = FALSE
  /\ accuracy = 0
  /\ micState = "null"
  /\ nodes = FALSE
  /\ animationRef = FALSE
  /\ lastStableFreq = 0
  /\ stableCounter = 0
  /\ attackTime = 0
  /\ frequencyReadings = <<>>
  /\ lastVolume = NegInfinity
  /\ lastNoteChangeTime = 0
  /\ closureIsAttack = FALSE
  /\ initPending = FALSE
  /\ clock = ClockStart
  /\ lastInput = [vol |-> NegInfinity, pitch |-> 0]
  /\ changes = 0
  /\ frame = NoFrame
  /\ playingNote = NoNote
  /\ synthNote = NoNote
  /\ lastClick = NoClick
  /\ calls = [i \in 1..MaxCalls |-> [pc |-> "new", isAttack |-> FALSE, stopped |-> FALSE]]
  /\ mics = [i \in 1..MaxCalls |-> "none"]
  /\ micRef = 0
  /\ pending = {}
  /\ due = {}
  /\ owner = 0
  /\ unmounted = FALSE
  /\ error = FALSE
  /\ lastWrite = NoWrite

Init ==
  /\ InitComponent
  /\ probe = NoProbe

\* ------------------------------------------------------------------------
\* Actions
\* ------------------------------------------------------------------------
\* times at which microphone access is granted
OpenTimes == {ClockStart, ClockStart + 200}

\* One call of analyzeAudio at time now (lines 494-643).
RunAnalyzeAudio(now, currentVolume, fundamentalFreq, valid) ==
  IF ~nodes \/ micState # "started"
  THEN \* lines 495-500
       /\ animationRef' = FALSE
       /\ frame' = NoFrame
       /\ UNCHANGED <<detectedNote, detectedFreq, tuningStatus, cents, volume,
                      isAttack, accuracy, lastStableFreq, stableCounter, attackTime,
                      frequencyReadings, lastVolume, lastNoteChangeTime>>
  ELSE /\ \E r \in {analyzeAudio(frame, TuningState, closureIsAttack, now,
                                  currentVolume, fundamentalFreq, valid)} :
            Store(r.st) /\ frame' = r.info
       \* lines 524 and 638-642
       /\ animationRef' = (micState = "started")

\* The start button (line 896) calls initAudio, which runs to its first await
\* (lines 369-391).  analyzeAudio is created in this call and captures the
\* isAttack of the render the handler belongs to.
InitAudio ==
  /\ ~isListening
  /\ ~initPending
  /\ closureIsAttack' = isAttack
  /\ isListening' = FALSE
  /\ tuningStatus' = "waiting"
  /\ detectedNote' = NoNote
  /\ detectedFreq' = 0
  /\ cents' = 0
  /\ volume' = NegInfinity
  /\ isAttack' = FALSE
  /\ accuracy' = 0
  /\ lastStableFreq' = 0
  /\ stableCounter' = 0
  /\ attackTime' = 0
  /\ frequencyReadings' = <<>>
  /\ lastVolume' = NegInfinity
  /\ lastNoteChangeTime' = 0
  /\ initPending' = TRUE
  /\ frame' = NoFrame
  /\ UNCHANGED <<micState, nodes, animationRef, clock, lastInput, changes>>
  /\ UNCHANGED <<tone, probe, async>>

\* Tone.start() and mic.open() have resolved: the nodes are built and the
\* loop is started with a first, synchronous analyzeAudio call (lines 392-648).
InitAudioOpened ==
  /\ initPending
  /\ \E t \in OpenTimes, v \in Volumes, p \in Pitches :
       /\ t >= clock
       /\ clock' = t
       /\ lastInput' = [vol |-> v, pitch |-> p]
       /\ initPending' = FALSE
       /\ micState' = "started"
       /\ nodes' = TRUE
       /\ isListening' = TRUE
       /\ \E r \in {analyzeAudio(frame, TuningState, closureIsAttack, t, v, p, TRUE)} :
            Store(r.st) /\ frame' = r.info
       /\ animationRef' = TRUE
  /\ UNCHANGED <<closureIsAttack, changes>>
  /\ UNCHANGED <<tone, probe, async>>

\* The requestAnimationFrame callback fires with the same input as the frame
\* before, one frame period later.
SteadyFrame ==
  /\ animationRef
  /\ clock + SetMin(FrameGaps) <= ClockStart + MaxTime
  /\ clock' = clock + SetMin(FrameGaps)
  /\ RunAnalyzeAudio(clock', lastInput.vol, lastInput.pitch, TRUE)
  /\ UNCHANGED <<isListening, micState, nodes, closureIsAttack, initPending,
                 lastInput, changes>>
  /\ UNCHANGED <<tone, probe, async>>

\* The callback fires and something has changed: the loudness, the estimated
\* pitch, a longer gap since the last frame, or unusable waveform data (the
\* meter is read whatever the analyser returns, so such a frame has any
\* loudness).
ChangedFrame ==
  /\ animationRef
  /\ changes < MaxChanges
  /\ changes' = changes + 1
  /\ \E in \in
          {[gap |-> g, vol |-> lastInput.vol, pitch |-> lastInput.pitch, valid |-> TRUE] :
             g \in FrameGaps \ {SetMin(FrameGaps)}}
          \cup {[gap |-> SetMin(FrameGaps), vol |-> v, pitch |-> lastInput.pitch,
                  valid |-> TRUE] : v \in Volumes \ {lastInput.vol}}
          \cup {[gap |-> SetMin(FrameGaps), vol |-> lastInput.vol, pitch |-> q,
                  valid |-> TRUE] : q \in Pitches \ {lastInput.pitch}}
          \cup {[gap |-> SetMin(FrameGaps), vol |-> v, pitch |-> lastInput.pitch,
                  valid |-> FALSE] : v \in Volumes} :
       /\ clock + in.gap <= ClockStart + MaxTime
       /\ clock' = clock + in.gap
       /\ lastInput' = [vol |-> in.vol, pitch |-> in.pitch]
       /\ RunAnalyzeAudio(clock', in.vol, in.pitch, in.valid)
  /\ UNCHANGED <<isListening, micState, nodes, closureIsAttack, initPending>>
  /\ UNCHANGED <<tone, probe, async>>

\* The stop button (line 896) calls stopAudio (lines 658-712).
StopAudio ==
  /\ isListening
  /\ animationRef' = FALSE
  /\ micState' = "null"
  /\ nodes' = FALSE
  /\ isListening' = FALSE
  /\ tuningStatus' = "waiting"
  /\ detectedNote' = NoNote
  /\ detectedFreq' = 0
  /\ cents' = 0
  /\ volume' = NegInfinity
  /\ isAttack' = FALSE
  /\ accuracy' = 0
  /\ lastStableFreq' = 0
  /\ stableCounter' = 0
  /\ frequencyReadings' = <<>>
  /\ frame' = NoFrame
  /\ UNCHANGED <<attackTime, lastVolume, lastNoteChangeTime, closureIsAttack,
                 initPending, clock, lastInput, changes>>
  /\ UNCHANGED <<tone, probe, async>>

Next ==
  \/ InitAudio
  \/ InitAudioOpened
  \/ SteadyFrame
  \/ ChangedFrame
  \/ StopAudio

Spec == Init /\ [][Next]_vars

\* ------------------------------------------------------------------------
\* The same session with frames far apart (the browser throttles
\* requestAnimationFrame of a page in the background)
\* ------------------------------------------------------------------------
\* the clock never passes ClockStart + MaxSlowTime
MaxSlowTime == 800
\* time between two frames
SlowGaps == {260, 510}
\* a note below the attack level, the same note below the gate, no pitch
SlowInputs ==
  {[vol |-> -40, pitch |-> 11000], [vol |-> -60, pitch |-> 11000],
   [vol |-> -40, pitch |-> 0]}

SlowFrame ==
  /\ animationRef
  /\ \E g \in SlowGaps, in \in SlowInputs :
       /\ clock + g <= ClockStart + MaxSlowTime
       /\ clock' = clock + g
       /\ lastInput' = in
       /\ RunAnalyzeAudio(clock', in.vol, in.pitch, TRUE)
  /\ UNCHANGED <<isListening, micState, nodes, closureIsAttack, initPending, changes>>
  /\ UNCHANGED <<tone, probe, async>>

SlowNext ==
  \/ InitAudio
  \/ InitAudioOpened
  \/ SlowFrame
  \/ StopAudio

SlowSpec == Init /\ [][SlowNext]_vars

\* ------------------------------------------------------------------------
\* The session with the awaits of initAudio.  A click on the start button
\* while isListening is false begins an initAudio call (line 896); the call
\* is suspended at Tone.start() (line 391) and at micRef.current.open() (line
\* 427), and clicks, the unmount and other calls run in between.  Clicks and
\* promise reactions run between animation frames; the callbacks requested
\* for an animation frame all run in that frame.
\* ------------------------------------------------------------------------
CallIds == 1..MaxCalls

\* what the analyser, the meter and the estimator give in every frame: a
\* steady 110.00 Hz above the gate and below the attack level
LoopInput == [vol |-> -50, pitch |-> 11000]

\* micRef.current?.state for the UserMedia objects m and the reference r
MicStateOf(m, r) ==
  IF r = 0 THEN "null" ELSE IF m[r] = "started" THEN "started" ELSE "stopped"

\* UserMedia.close(): a stream that is open is stopped; one that is still
\* being opened is not there to stop
Closed(m, r) ==
  IF r = 0 THEN m
  ELSE [m EXCEPT ![r] = IF @ = "started" THEN "stopped"
                        ELSE IF @ = "opening" THEN "closedOpening" ELSE @]

\* a later initAudio call has begun
Superseded(i) == \E j \in CallIds : j > i /\ calls[j].pc # "new"

\* stopAudio (lines 658-712), called when the UserMedia objects are m and the
\* initAudio calls are c
StopAudioEffect(m, c) ==
  /\ pending' = pending \ {owner}
  /\ due' = due \ {owner}
  /\ owner' = 0
  /\ animationRef' = FALSE
  /\ mics' = Closed(m, micRef)
  /\ micRef' = 0
  /\ micState' = "null"
  /\ nodes' = FALSE
  /\ isListening' = FALSE
  /\ tuningStatus' = "waiting"
  /\ detectedNote' = NoNote
  /\ detectedFreq' = 0
  /\ cents' = 0
  /\ volume' = NegInfinity
  /\ isAttack' = FALSE
  /\ accuracy' = 0
  /\ lastStableFreq' = 0
  /\ stableCounter' = 0
  /\ frequencyReadings' = <<>>
  /\ frame' = NoFrame
  /\ calls' = [i \in CallIds |->
                IF c[i].pc # "new" THEN [c[i] EXCEPT !.stopped = TRUE] ELSE c[i]]
  /\ UNCHANGED <<attackTime, lastVolume, lastNoteChangeTime, lastWrite>>

\* The analyzeAudio of call i runs (lines 494-643), as a callback or called by
\* initAudio (line 648), when the UserMedia objects are m, the nodes are
\* there or not (nd), and the requests are pend and du.
AnalyzeEffect(i, m, nd, pend, du, callback) ==
  IF ~nd \/ MicStateOf(m, micRef) # "started"
  THEN \* lines 495-500
       /\ pending' = pend \ {owner}
       /\ due' = du \ {owner}
       /\ owner' = 0
       /\ animationRef' = FALSE
       /\ UNCHANGED <<detectedNote, detectedFreq, tuningStatus, cents, volume,
                      isAttack, accuracy, lastStableFreq, stableCounter, attackTime,
                      frequencyReadings, lastVolume, lastNoteChangeTime, frame,
                      lastWrite>>
  ELSE /\ \E r \in {analyzeAudio(frame, TuningState, calls[i].isAttack, clock,
                                  LoopInput.vol, LoopInput.pitch, TRUE)} :
            Store(r.st) /\ frame' = r.info
       \* line 639
       /\ pending' = pend \cup {i}
       /\ due' = du
       /\ owner' = i
       /\ animationRef' = TRUE
       /\ lastWrite' = [call |-> i, stale |-> calls[i].stopped \/ Superseded(i),
                        count |-> lastWrite.count + (IF callback THEN 1 ELSE 0)]

\* a click on the start button: initAudio runs to its first await (lines
\* 369-391)
BeginInitAudio(i) ==
  /\ ~isListening
  /\ ~unmounted
  /\ due = {}
  /\ calls[i].pc = "new"
  /\ \A j \in CallIds : j < i => calls[j].pc # "new"
  /\ calls' = [calls EXCEPT ![i] = [pc |-> "toneStart", isAttack |-> isAttack,
                                    stopped |-> FALSE]]
  /\ error' = FALSE
  /\ isListening' = FALSE
  /\ tuningStatus' = "waiting"
  /\ detectedNote' = NoNote
  /\ detectedFreq' = 0
  /\ cents' = 0
  /\ volume' = NegInfinity
  /\ isAttack' = FALSE
  /\ accuracy' = 0
  /\ lastStableFreq' = 0
  /\ stableCounter' = 0
  /\ attackTime' = 0
  /\ frequencyReadings' = <<>>
  /\ lastVolume' = NegInfinity
  /\ lastNoteChangeTime' = 0
  /\ UNCHANGED <<micState, nodes, animationRef, closureIsAttack, initPending, env,
                 tone, probe, mics, micRef, pending, due, owner, unmounted, lastWrite>>

\* Tone.start() has resolved: the call closes the UserMedia micRef holds,
\* creates its own and waits for it to open (lines 392-427)
ToneStarted(i) ==
  /\ due = {}
  /\ calls[i].pc = "toneStart"
  /\ calls' = [calls EXCEPT ![i].pc = "micOpen"]
  /\ mics' = [Closed(mics, micRef) EXCEPT ![i] = "opening"]
  /\ micRef' = i
  /\ micState' = "stopped"
  /\ UNCHANGED <<display, nodes, animationRef, lastStableFreq, stableCounter,
                 attackTime, frequencyReadings, lastVolume, lastNoteChangeTime,
                 closureIsAttack, initPending, env, tone, probe, pending, due, owner,
                 unmounted, error, lastWrite>>

\* the catch of lines 650-654, when the UserMedia objects are m
InitAudioFails(i, m) ==
  /\ error' = TRUE
  /\ StopAudioEffect(m, [calls EXCEPT ![i].pc = "failed"])
  /\ UNCHANGED <<closureIsAttack, initPending, clock, lastInput, changes, tone, probe,
                 unmounted>>

\* Tone.start() has rejected, or the browser has no getUserMedia (lines
\* 391-397)
ToneRejected(i) ==
  /\ due = {}
  /\ calls[i].pc = "toneStart"
  /\ InitAudioFails(i, mics)

\* micRef.current.open() has rejected (line 427)
MicRejected(i) ==
  /\ due = {}
  /\ calls[i].pc = "micOpen"
  /\ InitAudioFails(i, [mics EXCEPT ![i] = "stopped"])

\* micRef.current.open() has resolved: the call builds the nodes, connects
\* the UserMedia micRef holds, and starts its loop with a first call of
\* analyzeAudio (lines 428-648).  With micRef null, line 483 throws.  An object
\* that was closed while it was being opened is either open or not afterwards.
MicOpened(i) ==
  /\ due = {}
  /\ calls[i].pc = "micOpen"
  /\ \E opened \in IF mics[i] = "opening" THEN {"started"} ELSE {"started", "stopped"} :
       LET m == [mics EXCEPT ![i] = opened]
       IN IF micRef = 0
          THEN InitAudioFails(i, m)
          ELSE /\ calls' = [calls EXCEPT ![i].pc = "running"]
               /\ mics' = m
               /\ micState' = MicStateOf(m, micRef)
               /\ nodes' = TRUE
               /\ isListening' = TRUE
               /\ AnalyzeEffect(i, m, TRUE, pending, due, FALSE)
               /\ UNCHANGED <<closureIsAttack, initPending, clock, lastInput, changes,
                              tone, probe, micRef, unmounted, error>>

\* the browser starts an animation frame: the callbacks requested are due
AnimationFrame ==
  /\ due = {}
  /\ pending # {}
  /\ clock + SetMin(FrameGaps) <= ClockStart + MaxLoopTime
  /\ clock' = clock + SetMin(FrameGaps)
  /\ due' = pending
  /\ pending' = {}
  /\ lastWrite' = [lastWrite EXCEPT !.count = 0]
  /\ UNCHANGED <<display, refs, lastInput, changes, frame, tone, probe, calls, mics,
                 micRef, owner, unmounted, error>>

\* the callback of loop i runs
LoopCallback(i) ==
  /\ i \in due
  /\ AnalyzeEffect(i, mics, nodes, pending, due \ {i}, TRUE)
  /\ UNCHANGED <<isListening, micState, nodes, closureIsAttack, initPending, clock,
                 lastInput, changes, tone, probe, calls, mics, micRef, unmounted, error>>

\* a click on the stop button (line 896)
ClickStopAudio ==
  /\ isListening
  /\ ~unmounted
  /\ due = {}
  /\ StopAudioEffect(mics, calls)
  /\ UNCHANGED <<closureIsAttack, initPending, clock, lastInput, changes, tone, probe,
                 unmounted, error>>

\* the component unmounts: the cleanup of lines 715-723 calls stopAudio
Unmount ==
  /\ ~unmounted
  /\ due = {}
  /\ unmounted' = TRUE
  /\ StopAudioEffect(mics, calls)
  /\ UNCHANGED <<closureIsAttack, initPending, clock, lastInput, changes, tone, probe,
                 error>>

SessionNext ==
  \/ \E i \in CallIds : BeginInitAudio(i)
  \/ \E i \in CallIds : ToneStarted(i)
  \/ \E i \in CallIds : ToneRejected(i)
  \/ \E i \in CallIds : MicOpened(i)
  \/ \E i \in CallIds : MicRejected(i)
  \/ AnimationFrame
  \/ \E i \in CallIds : LoopCallback(i)
  \/ ClickStopAudio
  \/ Unmount

SessionSpec == Init /\ [][SessionNext]_vars

\* ------------------------------------------------------------------------
\* Reference tone (lines 344-366, 1020, 1037).  The synth exists from mount
\* to unmount (lines 237-256) and sounds one note at a time.
\* ------------------------------------------------------------------------
\* playNote without the release of the note that is playing
playNote_NoRelease(playing, note) ==
  [released |-> FALSE, synthNote |-> note, playingNote |-> note]

\* lines 344-359: what playNote(note, frequency) does when playingNote is
\* `playing`
playNote(playing, note) ==
  [released |-> playing # NoNote, synthNote |-> note, playingNote |-> note]

\* lines 361-366; sounding is the note the synth sounds
stopNote(playing, sounding) ==
  IF playing # NoNote
  THEN [released |-> TRUE, synthNote |-> NoNote, playingNote |-> NoNote]
  ELSE [released |-> FALSE, synthNote |-> sounding, playingNote |-> playing]

\* a click on the tile of `note` (line 1020)
ClickNote(note) ==
  /\ lastClick.count < MaxClicks
  /\ LET r == IF playingNote = note THEN stopNote(playingNote, synthNote)
              ELSE playNote(playingNote, note)
     IN /\ playingNote' = r.playingNote
        /\ synthNote' = r.synthNote
        /\ lastClick' = [kind |-> "note", note |-> note, before |-> playingNote,
                         released |-> r.released, count |-> lastClick.count + 1]
  /\ UNCHANGED <<display, refs, env, probe, async>>

\* a click on the stop button, which is shown while a note is playing
\* (lines 1034-1037)
ClickStop ==
  /\ lastClick.count < MaxClicks
  /\ playingNote # NoNote
  /\ LET r == stopNote(playingNote, synthNote)
     IN /\ playingNote' = r.playingNote
        /\ synthNote' = r.synthNote
        /\ lastClick' = [kind |-> "stop", note |-> NoNote, before |-> playingNote,
                         released |-> r.released, count |-> lastClick.count + 1]
  /\ UNCHANGED <<display, refs, env, probe, async>>

ToneNext ==
  \/ \E note \in DOMAIN GUITAR_STRINGS : ClickNote(note)
  \/ ClickStop

ToneSpec == Init /\ [][ToneNext]_vars

\* ------------------------------------------------------------------------
\* The pure functions, called on their own
\* ------------------------------------------------------------------------
ReferenceFreqs == {GUITAR_STRINGS[n] : n \in DOMAIN GUITAR_STRINGS}

ProbeFreqs ==
  {-500, 0, 100}
    \cup {ProbeLow + ProbeStep * i : i \in 0..ProbeCount}
    \cup ReferenceFreqs
    \cup {8731, 15556, 18500, 20766, 26163, 31112, 31113, 34923, 34924}

Waves == UNION {[1..p -> Samples] : p \in 2..MaxWaveLen}

\* the buffer of n samples that repeats the wave w
Tiled(w, n) == [k \in 1..n |-> w[((k - 1) % Len(w)) + 1]]

Buffers ==
  {Tiled(w, BufferLen) : w \in Waves}
    \cup {Tiled(w, LongBufferLen) : w \in [1..2 -> Samples]}

\* Date.now() when calculateMovingAverage is called
HistoryNow == 5000
\* age of the last reading of the history, and time between two readings
LastAges == {20, 300, 501}
AgeSteps == {20, 50, 200}
\* estimates near E2, A2 and E4
HistoryFreqs == {8241, 11000, 32963}

\* the history of n readings, the last one of age last and each one step
\* older than the next, that alternate between the estimates f1 and f2
HistoryOf(n, last, step, f1, f2) ==
  [k \in 1..n |-> [frequency |-> IF k % 2 = 1 THEN f1 ELSE f2,
                   timestamp |-> HistoryNow - (last + (n - k) * step)]]

\* the histories the loop can have left: at most MOVING_AVERAGE_MAX_READINGS
\* readings in the order they were pushed
Histories ==
  {HistoryOf(n, last, step, f1, f2) :
     n \in 0..MOVING_AVERAGE_MAX_READINGS, last \in LastAges, step \in AgeSteps,
     f1 \in HistoryFreqs, f2 \in HistoryFreqs}

FunctionInit ==
  /\ InitComponent
  /\ probe \in
       {[NoProbe EXCEPT !.call = c, !.freq = f] :
          c \in {"findClosestString", "commitStage"}, f \in ProbeFreqs}
       \cup {[NoProbe EXCEPT !.call = "freqToCents", !.freq = f, !.target = t] :
               f \in ProbeFreqs, t \in ReferenceFreqs \cup {0}}
       \cup {[NoProbe EXCEPT !.call = "findFundamentalFrequency",
                             !.buffer = b, !.sampleRate = r] :
               b \in Buffers, r \in SampleRates}
       \cup {[NoProbe EXCEPT !.call = "calculateMovingAverage", !.freq = f,
                             !.readings = h, !.now = HistoryNow] :
               f \in HistoryFreqs, h \in Histories}

\* findClosestString(freq) returns
CallFindClosestString ==
  /\ probe.call = "findClosestString"
  /\ ~probe.done
  /\ probe' = [probe EXCEPT !.done = TRUE, !.note = findClosestString(probe.freq)]
  /\ UNCHANGED <<display, refs, env, tone, async>>

\* findFundamentalFrequency(buffer, sampleRate) returns
CallFindFundamentalFrequency ==
  /\ probe.call = "findFundamentalFrequency"
  /\ ~probe.done
  /\ probe' = [probe EXCEPT
                 !.done = TRUE,
                 !.value = findFundamentalFrequency(probe.buffer, probe.sampleRate)]
  /\ UNCHANGED <<display, refs, env, tone, async>>

\* freqToCents(freq, targetFreq) returns
CallFreqToCents ==
  /\ probe.call = "freqToCents"
  /\ ~probe.done
  /\ probe' = [probe EXCEPT !.done = TRUE,
                            !.value = freqToCents(probe.freq, probe.target)]
  /\ UNCHANGED <<display, refs, env, tone, async>>

\* the commit block of lines 576-611 runs on a fresh state with the smoothed
\* frequency freq
CallCommitStage ==
  /\ probe.call = "commitStage"
  /\ ~probe.done
  /\ probe.freq > 0
  /\ probe' = [probe EXCEPT !.done = TRUE]
  /\ Store(commitStage(TuningState, probe.freq))
  /\ UNCHANGED <<isListening, micState, nodes, animationRef, closureIsAttack,
                 initPending, env, tone, async>>

\* calculateMovingAverage(newFreq) returns (lines 260-300)
CallCalculateMovingAverage ==
  /\ probe.call = "calculateMovingAverage"
  /\ ~probe.done
  /\ \E pushed \in {pushReading(probe.readings, probe.freq, probe.now)} :
       /\ frequencyReadings' = pushed
       /\ probe' = [probe EXCEPT !.done = TRUE,
                                 !.value = movingAverage(pushed, probe.freq, probe.now)]
  /\ UNCHANGED <<display, micState, nodes, animationRef, lastStableFreq, stableCounter,
                 attackTime, lastVolume, lastNoteChangeTime, closureIsAttack,
                 initPending, env, tone, async>>

FunctionNext ==
  \/ CallFindClosestString
  \/ CallFreqToCents
  \/ CallCommitStage
  \/ CallFindFundamentalFrequency
  \/ CallCalculateMovingAverage

FunctionSpec == FunctionInit /\ [][FunctionNext]_vars

\* ------------------------------------------------------------------------
\* Properties
\* ------------------------------------------------------------------------
\* the step is a call of analyzeAudio that got past the guard of line 495
FrameStep == frame'.index > frame.index

\* the display fields the commit block writes are left alone, or set to the
\* waiting values
NothingCommitted ==
  /\ detectedFreq' = detectedFreq
  /\ detectedNote' = detectedNote
  /\ tuningStatus' \in {tuningStatus, "waiting"}
  /\ cents' \in {cents, 0}
  /\ accuracy' \in {accuracy, 0}

\* C1: a frame writes a non-waiting result only if, after its stability
\* update, stableCounter >= STABILITY_THRESHOLD and more than
\* ATTACK_IGNORE_TIME has passed since the note-change timestamp; in every
\* other frame no status but "waiting" is written.
C1_CommitNeedsStabilityAndDelay ==
  [][FrameStep =>
       /\ frame'.committed =>
            /\ stableCounter' >= STABILITY_THRESHOLD
            /\ frame'.now - lastNoteChangeTime' > ATTACK_IGNORE_TIME
       /\ ~(/\ stableCounter' >= STABILITY_THRESHOLD
            /\ frame'.now - lastNoteChangeTime' > ATTACK_IGNORE_TIME)
            => NothingCommitted]_vars

\* a reading was committed after an attack had been registered
C1_Witness ==
  /\ frame.committed
  /\ frame.matched
  /\ tuningStatus # "waiting"
  /\ lastNoteChangeTime > 0
  /\ stableCounter >= STABILITY_THRESHOLD

\* C2 as stated: after a frame whose loudness is -Infinity the status is
\* "waiting", no note is shown and the frequency is 0.
C2_SilenceClearsOutput ==
  (frame.kind # "none" /\ volume = NegInfinity) =>
     (tuningStatus = "waiting" /\ detectedNote = NoNote /\ detectedFreq = 0)

\* C2 amended: a frame with usable waveform data whose loudness is -Infinity
\* leaves the note and the frequency as they were, lowers stableCounter by one
\* (not below 0), and writes status "waiting", cents 0 and accuracy 0 exactly
\* when stableCounter was below STABILITY_THRESHOLD before the frame.
C2_SilenceDecays ==
  [][(FrameStep /\ frame'.kind # "invalid" /\ volume' = NegInfinity) =>
       /\ frame'.kind = "lowVolume"
       /\ detectedNote' = detectedNote
       /\ detectedFreq' = detectedFreq
       /\ stableCounter' = Max(0, stableCounter - 1)
       /\ IF stableCounter < STABILITY_THRESHOLD
          THEN tuningStatus' = "waiting" /\ cents' = 0 /\ accuracy' = 0
          ELSE tuningStatus' = tuningStatus /\ cents' = cents
               /\ accuracy' = accuracy]_vars

\* a silent frame has left a tuned note on display
C2_Witness ==
  /\ frame.kind = "lowVolume"
  /\ volume = NegInfinity
  /\ tuningStatus = "tuned"
  /\ detectedNote = "A2"
  /\ detectedFreq = GUITAR_STRINGS.A2

\* the output of a steady 110.00 Hz tone
A2Tuned ==
  /\ Abs(detectedFreq - GUITAR_STRINGS.A2) <= 50
  /\ detectedNote = "A2"
  /\ Abs(cents) <= CENTS_PRECISION
  /\ tuningStatus = "tuned"

\* C3 as stated: from a fresh session without attack, after
\* STABILITY_THRESHOLD consecutive gate-passing frames estimated at 110.00 Hz
\* the output is A2, tuned, and stays so.
C3_TunedAfterThresholdFrames ==
  frame.a2run >= STABILITY_THRESHOLD => A2Tuned

\* C3 amended: the same after STABILITY_THRESHOLD + 1 frames (the first frame
\* only records the candidate frequency, the next five count as stable).
C3_TunedAfterThresholdPlusOne ==
  frame.a2run >= STABILITY_THRESHOLD + 1 => A2Tuned

\* the tone has been held well past the commit
C3_Witness ==
  /\ frame.a2run >= 2 * STABILITY_THRESHOLD
  /\ frame.committed
  /\ A2Tuned

\* the smoothed frequency of the step's frame is further than `limit`
\* milli-cents from the frequency f
CentsApart(f, limit) ==
  /\ f > 0
  /\ frame'.kind = "pitch"
  /\ Abs(Log2MilliCents(frame'.smoothed, f)) > limit

\* C4 as stated: when the smoothed frequency of a frame is more than 50 cents
\* from the frequency committed in the frame before, stableCounter is reset
\* to 0 in that frame and the frame emits no new status.
C4_FiftyCentJumpResets ==
  [][(FrameStep /\ frame.committed /\ CentsApart(frame.smoothed, 50 * 1000)) =>
       (stableCounter' = 0 /\ ~frame'.committed)]_vars

\* the smoothed frequency of the step's frame is more than three tolerances
\* from the lastStableFreq the frame started with
BeyondThreeTolerances ==
  /\ lastStableFreq > 0
  /\ frame'.kind = "pitch"
  /\ ~frame'.newAttack
  /\ 1000 * Abs(frame'.smoothed - lastStableFreq)
       > 3 * Max(50 * 1000, lastStableFreq * 15)

\* C4 amended: when the smoothed frequency of a frame is more than three
\* tolerances (tolerance = max(0.5 Hz, 1.5% of lastStableFreq)) from
\* lastStableFreq, stableCounter is reset to 0 and lastStableFreq becomes the
\* smoothed frequency in that frame, which emits nothing; and a frame emits a
\* status only when at least STABILITY_THRESHOLD pitch frames have followed
\* the last reset.
C4_LargeJumpResets ==
  [][FrameStep =>
       /\ BeyondThreeTolerances =>
            /\ stableCounter' = 0
            /\ lastStableFreq' = frame'.smoothed
            /\ ~frame'.committed
            /\ NothingCommitted
       /\ frame'.committed => frame'.sinceReset >= STABILITY_THRESHOLD]_vars

\* a jump has reset the counter while the old note was on display
C4_Witness ==
  /\ frame.kind = "pitch"
  /\ frame.branch = "candidate"
  /\ frame.prevStable > 0
  /\ frame.prevCounter >= STABILITY_THRESHOLD - 1
  /\ stableCounter = 0
  /\ tuningStatus # "waiting"

\* the step's frame has a loudness jump that qualifies as an attack, within
\* the debounce time of a registered attack
DebouncedJump ==
  /\ FrameStep
  /\ attackTime > 0
  /\ volumeJumpExceeds(volume', lastVolume)
  /\ volume' > ATTACK_VOLUME_THRESHOLD
  /\ frame'.now - attackTime <= ATTACK_DEBOUNCE

\* C5: a loudness jump of more than 8 dB above ATTACK_VOLUME_THRESHOLD within
\* 300 ms of the registered attack is no attack: the attack and note-change
\* timestamps stay, and the frame works on the stableCounter, lastStableFreq
\* and frequency history it was given (they are not reset first).
C5_AttackDebounce ==
  [][DebouncedJump =>
       /\ ~frame'.newAttack
       /\ attackTime' = attackTime
       /\ lastNoteChangeTime' = lastNoteChangeTime
       /\ isAttack' = isAttack
       /\ frame'.kind \in {"invalid", "noPitch"} =>
            /\ lastStableFreq' = lastStableFreq
            /\ frequencyReadings' = frequencyReadings
            /\ stableCounter' >= stableCounter - 1
       /\ frame'.kind = "pitch" =>
            /\ frame'.prevStable = lastStableFreq
            /\ frame'.prevCounter = stableCounter
            /\ frequencyReadings' = pushReading(frequencyReadings, frame'.pitch,
                                                frame'.now)
            /\ Len(frequencyReadings) > 0 => Len(frequencyReadings') > 1]_vars

\* a debounced jump has gone by with the tracking state alive
C5_Witness ==
  /\ frame.kind = "pitch"
  /\ ~frame.newAttack
  /\ attackTime > 0
  /\ frame.now > attackTime
  /\ frame.now - attackTime <= ATTACK_DEBOUNCE
  /\ lastVolume = -20
  /\ lastInput.vol = -20
  /\ changes = 1
  /\ lastNoteChangeTime = attackTime
  /\ Len(frequencyReadings) > 1
  /\ frame.prevStable > 0

\* C6 as stated: isAttack is true once an attack is registered and is false
\* again after the first frame, without new attack, that comes more than
\* ATTACK_IGNORE_TIME after the attack timestamp.
C6_AttackFlagClears ==
  /\ (frame.index > 0 /\ frame.newAttack) => isAttack
  /\ (frame.index > 0 /\ ~frame.newAttack
        /\ frame.now - attackTime > ATTACK_IGNORE_TIME) => ~isAttack

\* C7: no frame within ATTACK_IGNORE_TIME of the most recent attack timestamp
\* is committed: it writes no frequency, no note and no non-waiting result.
C7_NoCommitInAttackWindow ==
  [][(FrameStep /\ attackTime' > 0
        /\ frame'.now - attackTime' <= ATTACK_IGNORE_TIME) =>
       (~frame'.committed /\ NothingCommitted)]_vars

\* a stable reading is held back inside the attack window
C7_Witness ==
  /\ frame.kind = "pitch"
  /\ attackTime > 0
  /\ frame.now - attackTime <= ATTACK_IGNORE_TIME
  /\ stableCounter >= STABILITY_THRESHOLD
  /\ ~frame.committed
  /\ tuningStatus = "waiting"

\* the step's frame does not end in a committed, matched reading
NotCommittedOrNoMatch == FrameStep /\ ~(frame'.committed /\ frame'.matched)

\* C8 as stated: a frame that is not committed, or matches no reference,
\* outputs "attack" when in attack and "waiting" otherwise (the component
\* shows the attack state as status "waiting" with the isAttack flag), so
\* that no earlier result is carried over.
C8_UncommittedFrameIsWaiting ==
  [][(NotCommittedOrNoMatch /\ frame'.kind # "invalid") =>
       \/ tuningStatus' = (IF isAttack' THEN "attack" ELSE "waiting")
       \/ (isAttack' /\ tuningStatus' = "waiting")]_vars

\* C8 amended: a committed frame that matches no reference, and a gate-fail or
\* no-pitch frame that finds stableCounter below STABILITY_THRESHOLD, write
\* status "waiting"; every other uncommitted frame leaves the status on
\* display as it was.
C8_UncommittedFrameStatus ==
  [][NotCommittedOrNoMatch =>
       tuningStatus' =
         IF \/ frame'.committed
            \/ /\ frame'.kind \in {"noPitch", "lowVolume"}
               /\ (frame'.newAttack \/ stableCounter < STABILITY_THRESHOLD)
         THEN "waiting"
         ELSE tuningStatus]_vars

\* an uncommitted pitch frame has kept the earlier result on display
C8_Witness ==
  /\ frame.kind = "pitch"
  /\ ~frame.committed
  /\ stableCounter < STABILITY_THRESHOLD
  /\ tuningStatus = "tuned"

\* C9: on a committed frame with a matched reference the status is the class
\* of the integer cents offset c: tuned iff |c| <= 3, almost-tuned iff
\* 3 < |c| <= 8, flat iff -25 <= c < -8, very-flat iff c < -25, sharp iff
\* 8 < c <= 25, very-sharp iff c > 25.
C9_StatusClassification ==
  (frame.committed /\ frame.matched) =>
     /\ cents = freqToCents(detectedFreq, GUITAR_STRINGS[detectedNote])
     /\ tuningStatus = "tuned" <=> Abs(cents) <= 3
     /\ tuningStatus = "almost-tuned" <=> (3 < Abs(cents) /\ Abs(cents) <= 8)
     /\ tuningStatus = "flat" <=> (-25 <= cents /\ cents < -8)
     /\ tuningStatus = "very-flat" <=> cents < -25
     /\ tuningStatus = "sharp" <=> (8 < cents /\ cents <= 25)
     /\ tuningStatus = "very-sharp" <=> cents > 25

\* a steady 195.00 Hz tone is committed as G3, 9 cents flat
C9_Witness ==
  /\ frame.committed
  /\ frame.matched
  /\ detectedFreq = 19500
  /\ detectedNote = "G3"
  /\ cents = -9
  /\ tuningStatus = "flat"

\* C10: accuracy is an integer in 0..100; it is clamp(100 - 2|cents|, 0, 100)
\* when the status is not "waiting", and accuracy and cents are both 0 when
\* it is.
C10_AccuracyRange ==
  /\ accuracy \in 0..100
  /\ tuningStatus # "waiting" =>
       accuracy = (IF 100 - 2 * Abs(cents) < 0 THEN 0
                   ELSE IF 100 - 2 * Abs(cents) > 100 THEN 100
                   ELSE 100 - 2 * Abs(cents))
  /\ tuningStatus = "waiting" => (accuracy = 0 /\ cents = 0)

\* a committed reading more than 50 cents off has accuracy 0
C10_Witness ==
  /\ frame.committed
  /\ tuningStatus = "very-sharp"
  /\ Abs(cents) > 50
  /\ accuracy = 0

\* the distance, in thousandths of a cent, from freq to the reference `name`
CentsDistance(freq, name) == Abs(Log2MilliCents(freq, GUITAR_STRINGS[name]))

\* the reference closest to freq
Nearest(freq) ==
  CHOOSE n \in DOMAIN GUITAR_STRINGS :
    \A m \in DOMAIN GUITAR_STRINGS : CentsDistance(freq, n) <= CentsDistance(freq, m)

\* C11: findClosestString(f) is the reference with the smallest distance in
\* cents to f when that distance is strictly below 100 cents, and no match
\* when it is 100 cents or more or when f <= 0.
C11_ClosestWithinSemitone ==
  (probe.call = "findClosestString" /\ probe.done) =>
     IF probe.freq <= 0 THEN probe.note = NoNote
     ELSE IF CentsDistance(probe.freq, Nearest(probe.freq)) < 100 * 1000
          THEN /\ probe.note = Nearest(probe.freq)
               /\ \A m \in DOMAIN GUITAR_STRINGS \ {probe.note} :
                    CentsDistance(probe.freq, probe.note)
                      < CentsDistance(probe.freq, m)
          ELSE probe.note = NoNote

\* 349.24 Hz, just over 100 cents above E4, has no match
C11_Witness ==
  /\ probe.call = "findClosestString"
  /\ probe.done
  /\ probe.freq = 34924
  /\ probe.note = NoNote
  /\ CentsDistance(34924, "E4") >= 100 * 1000
  /\ CentsDistance(34923, "E4") < 100 * 1000

\* the threshold C12 states for a last stable frequency f (centi-Hz)
LoweredThreshold(f) ==
  IF f > 25000 THEN VOLUME_THRESHOLD - 6
  ELSE IF f > 15000 THEN VOLUME_THRESHOLD - 3
  ELSE VOLUME_THRESHOLD

\* C12 as stated: a frame with usable waveform data passes the gate exactly
\* when its loudness is finite and above the threshold, which is
\* VOLUME_THRESHOLD for a last stable frequency of at most 150 Hz (or 0),
\* 3 dB lower in (150, 250] Hz and 6 dB lower above 250 Hz.
C12_GateThresholdLowered ==
  [][(FrameStep /\ frame'.kind # "invalid") =>
       (frame'.kind \in {"pitch", "noPitch"} <=>
          /\ isFinite(volume')
          /\ volume' > LoweredThreshold(IF frame'.newAttack THEN 0
                                        ELSE lastStableFreq))]_vars

\* the step is a call of stopAudio
StopStep == isListening /\ ~isListening'

\* C13 as stated: when stopAudio has completed, every field of the tuning
\* state has its initial value: lastStableFreq 0, stableCounter 0, lastVolume
\* -Infinity, attackTime 0, lastNoteChangeTime 0, an empty frequency history,
\* status "waiting" and accuracy 0.
C13_StopResetsTuningState ==
  [][StopStep =>
       /\ lastStableFreq' = 0
       /\ stableCounter' = 0
       /\ lastVolume' = NegInfinity
       /\ attackTime' = 0
       /\ lastNoteChangeTime' = 0
       /\ frequencyReadings' = <<>>
       /\ tuningStatus' = "waiting"
       /\ accuracy' = 0]_vars

\* C14 as stated: a frame whose waveform data is unusable is skipped and
\* leaves lastVolume, attackTime, lastNoteChangeTime, stableCounter,
\* lastStableFreq, the frequency history and the status as they were.
C14_InvalidFrameKeepsState ==
  [][(FrameStep /\ frame'.kind = "invalid") =>
       UNCHANGED <<lastVolume, attackTime, lastNoteChangeTime, stableCounter,
                   lastStableFreq, frequencyReadings, tuningStatus>>]_vars

\* C15: findFundamentalFrequency returns 0 ("no pitch") or a frequency between
\* 0.95 * MIN_DETECT_FREQ and 1.05 * MAX_DETECT_FREQ (66.5 Hz and 367.5 Hz).
C15_PitchInRange ==
  (probe.call = "findFundamentalFrequency" /\ probe.done) =>
     \/ probe.value = 0
     \/ /\ probe.value >= MIN_DETECT_FREQ * 95
        /\ probe.value <= MAX_DETECT_FREQ * 105

\* a wave of period 3 sampled at 1000 Hz is found under the threshold and
\* interpolated to 345.54 Hz
C15_Witness ==
  /\ probe.call = "findFundamentalFrequency"
  /\ probe.done
  /\ probe.sampleRate = 1000
  /\ pickedPeriod(yinBufferOf(probe.buffer), probe.sampleRate).foundThreshold
  /\ probe.value = 34554

\* C16: for each reference pitch r, freqToCents(r, r) = 0 and
\* findClosestString(r) is r itself, and the commit block run with the
\* frequency of r shows r, 0 cents, status "tuned" and accuracy 100.
C16_ReferenceIsTuned ==
  probe.done =>
    /\ (probe.call = "freqToCents" /\ probe.freq = probe.target
          /\ probe.target \in ReferenceFreqs) => probe.value = 0
    /\ (probe.call = "findClosestString" /\ probe.freq \in ReferenceFreqs) =>
          /\ probe.note # NoNote
          /\ GUITAR_STRINGS[probe.note] = probe.freq
    /\ (probe.call = "commitStage" /\ probe.freq \in ReferenceFreqs) =>
          /\ detectedNote # NoNote
          /\ GUITAR_STRINGS[detectedNote] = probe.freq
          /\ detectedFreq = probe.freq
          /\ cents = 0
          /\ tuningStatus = "tuned"
          /\ accuracy = 100

\* 329.63 Hz has been committed as E4, tuned
C16_Witness ==
  /\ probe.call = "commitStage"
  /\ probe.done
  /\ probe.freq = GUITAR_STRINGS.E4
  /\ detectedNote = "E4"
  /\ tuningStatus = "tuned"
  /\ accuracy = 100

\* the step is a click on a tile or on the stop button
ClickStep == lastClick'.count > lastClick.count

\* C17: at most one note is marked as playing, and it is the note the synth
\* sounds; a click on the playing note or on the stop button releases the
\* synth and leaves playingNote null; a click on another note releases the
\* note that was playing and makes the clicked note the playing one.
C17_OneReferenceTone ==
  [][ClickStep =>
       /\ Cardinality({n \in DOMAIN GUITAR_STRINGS : playingNote' = n}) <= 1
       /\ synthNote' = playingNote'
       /\ IF lastClick'.kind = "stop" \/ lastClick'.note = playingNote
          THEN /\ lastClick'.released
               /\ playingNote' = NoNote
          ELSE /\ playingNote # NoNote => lastClick'.released
               /\ playingNote' = lastClick'.note]_vars

\* A2 was playing and a click on E4 has replaced it
C17_Witness ==
  /\ lastClick.kind = "note"
  /\ lastClick.before = "A2"
  /\ lastClick.note = "E4"
  /\ lastClick.released
  /\ playingNote = "E4"
  /\ synthNote = "E4"

\* the loudness of the step's frame is more than 8 dB above the loudness of
\* the frame before and above ATTACK_VOLUME_THRESHOLD, and more than 300 ms
\* have passed since the registered attack
AttackConditions ==
  /\ isFinite(volume')
  /\ (isFinite(lastVolume) => volume' - lastVolume > 8)
  /\ volume' > ATTACK_VOLUME_THRESHOLD
  /\ frame'.now - attackTime > 300

\* C18: a frame registers a new attack exactly when its loudness rose by more
\* than 8 dB, is above ATTACK_VOLUME_THRESHOLD and more than 300 ms have
\* passed since the previous attack; that frame sets the attack and
\* note-change timestamps to the current time and resets stableCounter,
\* lastStableFreq and the frequency history before it processes the pitch (a
\* pitch frame then starts from 0, 0 and an empty history).
C18_AttackRegistration ==
  [][FrameStep =>
       /\ frame'.newAttack <=> AttackConditions
       /\ attackTime' # attackTime <=> AttackConditions
       /\ AttackConditions =>
            /\ attackTime' = frame'.now
            /\ lastNoteChangeTime' = frame'.now
            /\ isAttack'
            /\ IF frame'.kind = "pitch"
               THEN /\ frame'.prevStable = 0
                    /\ frame'.prevCounter = 0
                    /\ frequencyReadings' =
                         <<[frequency |-> frame'.pitch, timestamp |-> frame'.now]>>
                    /\ lastStableFreq' = frame'.pitch
                    /\ stableCounter' = 0
               ELSE /\ lastStableFreq' = 0
                    /\ stableCounter' = 0
                    /\ frequencyReadings' = <<>>]_vars

\* a second attack, more than 300 ms after the first, has reset the tracking
\* of a note that was committed
C18_Witness ==
  /\ frame.newAttack
  /\ frame.index > 1
  /\ frame.kind = "pitch"
  /\ frame.prevAttack > 0
  /\ frame.now - frame.prevAttack > ATTACK_DEBOUNCE
  /\ attackTime = frame.now
  /\ lastNoteChangeTime = frame.now
  /\ stableCounter = 0
  /\ Len(frequencyReadings) = 1
  /\ tuningStatus = "tuned"

\* the step's frame takes the new-candidate branch from a lastStableFreq
\* above 0, with a smoothed frequency more than 50 cents away from it
NoteChangeJump ==
  /\ FrameStep
  /\ frame'.kind = "pitch"
  /\ frame'.branch = "candidate"
  /\ frame'.prevStable > 0
  /\ Abs(Log2MilliCents(frame'.smoothed, frame'.prevStable)) > 50 * 1000

\* C19 as stated: in the new-candidate branch, when the smoothed frequency is
\* more than 50 cents from the previous lastStableFreq, the frame empties the
\* frequency history and sets the note-change timestamp to the current time.
C19_NoteChangeClearsHistory ==
  [][NoteChangeJump =>
       /\ frequencyReadings' = <<>>
       /\ lastNoteChangeTime' = frame'.now]_vars

\* C20: a pitch frame with smoothed frequency s, finding lastStableFreq l and
\* stableCounter c, with tolerance t = max(0.5 Hz, 0.015 * l), does exactly
\* one of: (1) |s - l| < t: the counter becomes c + 1 and l stays; (2)
\* otherwise, l = 0 or |s - l| > 3 t: l becomes s and the counter 0; (3)
\* otherwise: l becomes 0.9 l + 0.1 s and the counter max(0, c - 1).
\* (Frequencies are in centi-Hz, the comparisons are made times 1000.)
C20_HysteresisUpdate ==
  [][(FrameStep /\ frame'.kind = "pitch") =>
       LET l == frame'.prevStable
           c == frame'.prevCounter
           s == frame'.smoothed
           t == IF 15 * l > 50000 THEN 15 * l ELSE 50000
           d == 1000 * (IF s >= l THEN s - l ELSE l - s)
       IN IF d < t
          THEN stableCounter' = c + 1 /\ lastStableFreq' = l
          ELSE IF l = 0 \/ d > 3 * t
               THEN stableCounter' = 0 /\ lastStableFreq' = s
               ELSE /\ stableCounter' = (IF c >= 1 THEN c - 1 ELSE 0)
                    /\ lastStableFreq' = (9 * l + s + 5) \div 10]_vars

\* a moderate deviation has blended lastStableFreq and taken one off a
\* counter that was at least 2
C20_Witness ==
  /\ frame.kind = "pitch"
  /\ frame.branch = "drift"
  /\ frame.prevCounter >= 2
  /\ stableCounter = frame.prevCounter - 1
  /\ lastStableFreq # frame.prevStable
  /\ lastStableFreq # frame.smoothed

\* C21: a frame that registers no attack and either fails the gate or gets no
\* pitch lowers stableCounter by one, not below 0, and leaves lastStableFreq,
\* the frequency history, the note-change timestamp, the displayed note and
\* the displayed frequency as they were.
C21_DropoutDecays ==
  [][(FrameStep /\ ~frame'.newAttack /\ frame'.kind \in {"lowVolume", "noPitch"}) =>
       /\ stableCounter' = (IF stableCounter >= 1 THEN stableCounter - 1 ELSE 0)
       /\ UNCHANGED <<lastStableFreq, frequencyReadings, lastNoteChangeTime,
                      detectedNote, detectedFreq>>]_vars

\* a frame without pitch has taken one off a counter above 5 and kept the
\* committed note
C21_Witness ==
  /\ frame.kind = "noPitch"
  /\ ~frame.newAttack
  /\ stableCounter >= STABILITY_THRESHOLD
  /\ lastStableFreq > 0
  /\ frequencyReadings # <<>>
  /\ detectedNote # NoNote

\* C22: stableCounter is a non-negative integer in every state, and a step
\* leaves it unchanged, adds 1, takes 1 off or sets it to 0.
C22_CounterSteps ==
  /\ [](stableCounter \in Nat)
  /\ [][stableCounter' \in {stableCounter, stableCounter + 1, stableCounter - 1, 0}]_vars

\* a moderate deviation right after a new candidate has found the counter at 0
\* and left it there
C22_Witness ==
  /\ frame.kind = "pitch"
  /\ frame.branch = "drift"
  /\ frame.prevCounter = 0
  /\ stableCounter = 0

\* s is what is left of t when its first entries are dropped
IsSuffix(s, t) ==
  /\ Len(s) <= Len(t)
  /\ s = SubSeq(t, Len(t) - Len(s) + 1, Len(t))

\* the timestamps of the history never decrease
TimeOrdered(readings) ==
  \A i \in 1..(Len(readings) - 1) : readings[i].timestamp <= readings[i + 1].timestamp

\* C23: the frequency history never holds more than
\* MOVING_AVERAGE_MAX_READINGS entries and is ordered by timestamp; a frame
\* that pushes a reading keeps that reading as the last entry, and what it
\* drops are the oldest entries of the history it found (an attack registered
\* by the same frame empties the history first); when more than the maximum
\* are inside the window, exactly the maximum are kept.
C23_HistoryBounded ==
  /\ [](/\ Len(frequencyReadings) <= MOVING_AVERAGE_MAX_READINGS
        /\ TimeOrdered(frequencyReadings))
  /\ [][(FrameStep /\ frame'.kind = "pitch") =>
          LET reading == [frequency |-> frame'.pitch, timestamp |-> frame'.now]
              pushed == Append(IF frame'.newAttack THEN <<>> ELSE frequencyReadings,
                               reading)
          IN /\ frequencyReadings' # <<>>
             /\ frequencyReadings'[Len(frequencyReadings')] = reading
             /\ IsSuffix(frequencyReadings', pushed)
             /\ (/\ Len(pushed) > MOVING_AVERAGE_MAX_READINGS
                 /\ frame'.now - pushed[1].timestamp <= MOVING_AVERAGE_WINDOW) =>
                  Len(frequencyReadings') = MOVING_AVERAGE_MAX_READINGS]_vars

\* the eleventh reading in a row has pushed the first one out
C23_Witness ==
  /\ frame.kind = "pitch"
  /\ frame.index > MOVING_AVERAGE_MAX_READINGS
  /\ Len(frequencyReadings) = MOVING_AVERAGE_MAX_READINGS
  /\ frequencyReadings[MOVING_AVERAGE_MAX_READINGS].timestamp = frame.now
  /\ frequencyReadings[1].timestamp
       = frame.now - (MOVING_AVERAGE_MAX_READINGS - 1) * SetMin(FrameGaps)

\* every entry of the history is at most MOVING_AVERAGE_WINDOW old at `now`
InsideWindow(readings, now) ==
  \A i \in 1..Len(readings) : now - readings[i].timestamp <= MOVING_AVERAGE_WINDOW

\* C24 as stated: at the end of every frame, whatever branch it took, every
\* entry of the frequency history is at most MOVING_AVERAGE_WINDOW old.
C24_HistoryInsideWindow ==
  frame.kind # "none" => InsideWindow(frequencyReadings, frame.now)

\* C24 amended: at the end of a frame that pushed a reading every entry of the
\* history is at most MOVING_AVERAGE_WINDOW old; any other frame leaves the
\* history as it was, whatever the age of its entries, or empties it when it
\* registers an attack.
C24_PushPrunesHistory ==
  [][FrameStep =>
       IF frame'.kind = "pitch"
       THEN InsideWindow(frequencyReadings', frame'.now)
       ELSE frequencyReadings' =
              (IF frame'.newAttack THEN <<>> ELSE frequencyReadings)]_vars

\* the second reading of a session without attack came more than 500 ms after
\* the first, which is gone
C24_Witness ==
  /\ frame.kind = "pitch"
  /\ frame.index = 2
  /\ frame.branch = "stable"
  /\ frame.prevStable = frame.pitch
  /\ attackTime = 0
  /\ frequencyReadings = <<[frequency |-> frame.pitch, timestamp |-> frame.now]>>

\* the search range of findFundamentalFrequency (lines 115-116)
MinPeriodOf(sampleRate) ==
  IF sampleRate \div MAX_DETECT_FREQ > 2 THEN sampleRate \div MAX_DETECT_FREQ ELSE 2

MaxPeriodOf(yin, sampleRate) ==
  IF sampleRate \div MIN_DETECT_FREQ < Len(yin) - 1
  THEN sampleRate \div MIN_DETECT_FREQ ELSE Len(yin) - 1

\* d'(tau) is below the threshold and below both of its neighbours
\* (d'(tau) is yin[tau + 1]; a neighbour past the end of the array does not
\* count as higher)
IsDip(yin, tau) ==
  /\ yin[tau + 1] < YIN_THRESHOLD
  /\ yin[tau + 1] < yin[tau]
  /\ tau + 2 <= Len(yin)
  /\ yin[tau + 1] < yin[tau + 2]

\* the lags of the search range that are such minima
Dips(yin, sampleRate) ==
  {tau \in MinPeriodOf(sampleRate)..MaxPeriodOf(yin, sampleRate) : IsDip(yin, tau)}

\* C25 as stated: when the search range, minPeriod included, holds a lag whose
\* d' is below the threshold and below both neighbours, the period picked is
\* the smallest such lag.
C25_FirstDipPicked ==
  (probe.call = "findFundamentalFrequency" /\ probe.done) =>
     LET yin == yinBufferOf(probe.buffer)
         dips == Dips(yin, probe.sampleRate)
     IN dips # {} =>
          pickedPeriod(yin, probe.sampleRate).bestPeriod = SetMin(dips)

\* the smallest d' of the search range, in thousandths
GlobalMinimum(yin, sampleRate) ==
  SetMin({yin[tau + 1] : tau \in MinPeriodOf(sampleRate)..MaxPeriodOf(yin, sampleRate)})

\* the first lag of the search range with that value
FirstMinimum(yin, sampleRate) ==
  SetMin({tau \in MinPeriodOf(sampleRate)..MaxPeriodOf(yin, sampleRate) :
            yin[tau + 1] = GlobalMinimum(yin, sampleRate)})

\* C26: when no lag of the search range is below the threshold and below both
\* neighbours, findFundamentalFrequency returns 0 if the global minimum of d'
\* over the range is above 1.2 * threshold, and otherwise picks the first lag
\* that has the global minimum.
C26_GlobalMinimumFallback ==
  (probe.call = "findFundamentalFrequency" /\ probe.done) =>
     LET yin == yinBufferOf(probe.buffer)
     IN Dips(yin, probe.sampleRate) = {} =>
          IF 10 * GlobalMinimum(yin, probe.sampleRate) > 12 * YIN_THRESHOLD
          THEN probe.value = 0
          ELSE pickedPeriod(yin, probe.sampleRate)
                 = [bestPeriod |-> FirstMinimum(yin, probe.sampleRate),
                    minValue |-> GlobalMinimum(yin, probe.sampleRate),
                    foundThreshold |-> FALSE]

\* a wave of three samples at 350 Hz has its best lag at d' = 0.100, which is
\* not below the threshold but within 1.2 times of it: the lag is used
C26_Witness ==
  /\ probe.call = "findFundamentalFrequency"
  /\ probe.done
  /\ probe.sampleRate = 350
  /\ Dips(yinBufferOf(probe.buffer), probe.sampleRate) = {}
  /\ GlobalMinimum(yinBufferOf(probe.buffer), probe.sampleRate) = YIN_THRESHOLD
  /\ pickedPeriod(yinBufferOf(probe.buffer), probe.sampleRate).bestPeriod = 3
  /\ probe.value = 11868

\* C27 as stated: for a buffer of zeros, where the running sum is 0 at every
\* lag, every normalised difference d'(tau) is a poor match (not below the
\* threshold) and findFundamentalFrequency returns 0.
C27_SilentBufferNoPitch ==
  (/\ probe.call = "findFundamentalFrequency"
   /\ probe.done
   /\ \A k \in 1..Len(probe.buffer) : probe.buffer[k] = 0) =>
     /\ \A tau \in 1..(Len(probe.buffer) \div 2 - 1) :
          yinBufferOf(probe.buffer)[tau + 1] >= YIN_THRESHOLD
     /\ probe.value = 0

\* the status that goes with an offset of c cents
StatusOfCents(c) ==
  IF -3 <= c /\ c <= 3 THEN "tuned"
  ELSE IF -8 <= c /\ c <= 8 THEN "almost-tuned"
  ELSE IF c < -25 THEN "very-flat"
  ELSE IF c < 0 THEN "flat"
  ELSE IF c > 25 THEN "very-sharp"
  ELSE "sharp"

\* C28: whenever the status is not "waiting", a note is displayed, the
\* displayed frequency is above 0 and the status is the class of the
\* displayed cents.
C28_DisplayConsistent ==
  tuningStatus # "waiting" =>
     /\ detectedNote # NoNote
     /\ detectedFreq > 0
     /\ tuningStatus = StatusOfCents(cents)

\* the converse case: a dropout has set the status back to "waiting" while the
\* note and the frequency of the last commit are still displayed
C28_Witness ==
  /\ frame.kind \in {"lowVolume", "noPitch"}
  /\ tuningStatus = "waiting"
  /\ detectedNote # NoNote
  /\ detectedFreq > 0
  /\ cents = 0

\* C29: in a run of frames that all fail the gate, starting with stableCounter
\* c, the n-th frame finds the counter at max(0, c - (n - 1)) and writes status
\* "waiting" when that is below STABILITY_THRESHOLD; so the status is
\* "waiting" from frame max(0, c - STABILITY_THRESHOLD + 1) + 1 of the run on.
C29_DropoutRunWaits ==
  frame.kind = "lowVolume" =>
     LET c == frame.lowStart
         n == frame.lowRun
         late == IF c - STABILITY_THRESHOLD + 1 > 0
                 THEN c - STABILITY_THRESHOLD + 1 ELSE 0
     IN /\ n >= 1
        /\ stableCounter = (IF c - n > 0 THEN c - n ELSE 0)
        /\ n > late => tuningStatus = "waiting"

\* a note held until the counter was at c >= 7 is still shown as tuned after
\* c - 4 frames below the gate, the last frame for which the bound allows it
C29_Witness ==
  /\ frame.kind = "lowVolume"
  /\ frame.lowStart >= STABILITY_THRESHOLD + 2
  /\ frame.lowRun = frame.lowStart - STABILITY_THRESHOLD + 1
  /\ tuningStatus = "tuned"

\* C30 as stated: whatever the order of start clicks, stop and unmount events
\* and the awaits of initAudio, at most one analysis loop has a callback
\* requested, at most one analyzeAudio call per animation frame changes the
\* tuning state, and none of them belongs to an initAudio call that was
\* stopped or superseded.
C30_SingleLoop ==
  /\ Cardinality(pending \cup due) <= 1
  /\ lastWrite.count <= 1
  /\ ~lastWrite.stale

\* a frame was processed and the loop asked for the next one (lines 524, 639)
C31_ProcessedFrameReschedules ==
  [][FrameStep => (animationRef' /\ owner' # 0 /\ owner' \in pending')]_vars

\* a callback that ran without processing a frame met the guard of lines
\* 495-500: the microphone is not started or a node is missing, nothing is
\* requested and animationRef is null
C31_GuardEndsLoop ==
  [][(due # {} /\ due' # due /\ ~FrameStep) =>
       /\ ~nodes \/ MicStateOf(mics, micRef) # "started"
       /\ ~animationRef' /\ owner' = 0
       /\ pending' \subseteq pending]_vars

\* stopAudio has run and no start click has begun an initAudio call since
StopAudioRan ==
  /\ \E i \in CallIds : calls[i].pc # "new"
  /\ \A i \in CallIds : calls[i].pc # "new" => calls[i].stopped

C31_StoppedStaysStopped ==
  /\ [](StopAudioRan => (~animationRef /\ owner = 0))
  /\ [][StopAudioRan => ~FrameStep]_vars

\* C31 as stated: analyzeAudio requests the next frame if and only if the
\* microphone is started and the analyser and the meter are there; every
\* frame processed requests the next one, and once stopAudio has run no
\* frame is processed and animationRef is null.
C31_LoopRunsIffStarted ==
  /\ C31_ProcessedFrameReschedules
  /\ C31_GuardEndsLoop
  /\ C31_StoppedStaysStopped

\* calculateMovingAverage has returned probe.value and left the history in
\* frequencyReadings
MovingAverageReturned == probe.call = "calculateMovingAverage" /\ probe.done

\* C32: calculateMovingAverage returns the raw estimate when the history it
\* has pruned holds fewer than two readings; otherwise the recency factor of
\* every reading is in [0, 1], its rank factor in (0, 1], its weight is
\* strictly positive, and the value returned is at least the smallest and at
\* most the largest frequency of the history.
C32_MovingAverageBounds ==
  MovingAverageReturned =>
    LET h == frequencyReadings
        n == Len(h)
    IN IF n < 2 THEN probe.value = probe.freq
       ELSE /\ \A i \in 1..n :
                 /\ timeWeight(h, i, probe.now) \in 0..1000
                 /\ positionWeight(h, i) \in 1..1000
                 /\ readingWeight(h, i, probe.now) > 0
            /\ \E i \in 1..n : h[i].frequency <= probe.value
            /\ \E i \in 1..n : h[i].frequency >= probe.value

\* a history of several readings, the oldest exactly MOVING_AVERAGE_WINDOW old
\* (recency factor 0), and a mean strictly inside their range
C32_Witness ==
  /\ MovingAverageReturned
  /\ Len(frequencyReadings) > 2
  /\ timeWeight(frequencyReadings, 1, probe.now) = 0
  /\ \E i \in DOMAIN frequencyReadings : frequencyReadings[i].frequency < probe.value
  /\ \E i \in DOMAIN frequencyReadings : frequencyReadings[i].frequency > probe.value

\* C33 as stated: when initAudio has failed (Tone.start() rejected, the
\* browser has no getUserMedia, or the microphone did not open), then, for as
\* long as the error message of its catch stands, isListening is false, no
\* callback of an analysis loop is requested, the microphone and the node
\* refs are null and lastStableFrequency, stableCounter and the frequency
\* history have their initial values.
C33_FailedInitStaysStopped ==
  error =>
    /\ ~isListening
    /\ ~animationRef /\ owner = 0 /\ pending = {} /\ due = {}
    /\ ~nodes /\ micRef = 0 /\ micState = "null"
    /\ lastStableFreq = 0 /\ stableCounter = 0 /\ frequencyReadings = <<>>

====
